---- MODULE Spec2Model ----
(***************************************************************************)
(* Model of the autonomous-coding-partner backend: the artifact store      *)
(* (services/file_manager.py), the project entity (models/project.py) and  *)
(* the orchestrator (agents/orchestrator.py) with its callers in main.py.  *)
(*                                                                         *)
(* Paths are sequences of components; the filesystem is one global map     *)
(* from absolute paths to file contents plus a set of directories.         *)
(***************************************************************************)
EXTENDS Integers, Sequences, FiniteSets, TLC

VARIABLES files, dirs, active_projects, runs, out, ps, cb, tasks,
          active_challenges, handles, gate, bgtask

vars == <<files, dirs, active_projects, runs, out, ps, cb, tasks,
          active_challenges, handles, gate, bgtask>>

(***************************************************************************)
(* Bounds                                                                  *)
(***************************************************************************)
MaxLogs == 2
MaxList == 2

ProjIds == {"p1", "p2"}
Times == {1, 2}
None == "None"

(***************************************************************************)
(* Paths (pathlib)                                                         *)
(***************************************************************************)
Rel(parts) == [abs |-> FALSE, parts |-> parts]
Abs(parts) == [abs |-> TRUE, parts |-> parts]

\* FileManager.__init__: workspace_path = Path("./workspace"), already resolved
WorkspacePath == <<"ws">>

\* project ids that hold a path separator, with their components
IdComponents == ("../etc" :> <<"..", "etc">>)

\* a project id is parsed by pathlib into its components
IdParts(project_id) ==
    IF project_id \in DOMAIN IdComponents THEN IdComponents[project_id] ELSE <<project_id>>

\* symbolic links present in the filesystem: location -> absolute target
Symlinks == (<<"ws", "p1", "lnk">> :> <<"etc">>)

\* pathlib's "/" operator: an absolute right operand replaces the left one
PathJoin(base, fp) == IF fp.abs THEN fp.parts ELSE base \o fp.parts

Parent(p) == IF p = <<>> THEN <<>> ELSE SubSeq(p, 1, Len(p) - 1)

Prefixes(p) == {SubSeq(p, 1, n) : n \in 0..Len(p)}

RECURSIVE ResolveFrom(_, _)
ResolveFrom(done, rest) ==
    IF rest = <<>> THEN done
    ELSE LET c == Head(rest) IN
         IF c = "." THEN ResolveFrom(done, Tail(rest))
         ELSE IF c = ".." THEN ResolveFrom(Parent(done), Tail(rest))
         ELSE LET nxt == Append(done, c) IN
              IF nxt \in DOMAIN Symlinks
              THEN ResolveFrom(<<>>, Symlinks[nxt] \o Tail(rest))
              ELSE ResolveFrom(nxt, Tail(rest))

\* Path.resolve(): drop ".", apply "..", follow symbolic links
Resolve(p) == ResolveFrom(<<>>, p)

\* Path.relative_to(other) succeeds iff other is a component-wise prefix
IsRelativeTo(p, other) ==
    /\ Len(p) >= Len(other)
    /\ SubSeq(p, 1, Len(other)) = other

\* the location the operating system reaches when it walks a path
Canonical(p) == ResolveFrom(<<>>, p)

\* the canonical project subdirectory of a project id
ProjectDir(project_id) == Canonical(WorkspacePath \o IdParts(project_id))

\* a guard that resolves the path but never rejects it
get_safe_path_unchecked(project_id, file_path) ==
    LET project_dir == Resolve(WorkspacePath \o IdParts(project_id))
        requested_path == Resolve(PathJoin(project_dir, file_path))
    IN [err |-> FALSE, path |-> requested_path]

\* FileManager._get_safe_path; err stands for raising InvalidFilePathError
get_safe_path(project_id, file_path) ==
    LET project_dir == Resolve(WorkspacePath \o IdParts(project_id))
        requested_path == Resolve(PathJoin(project_dir, file_path))
    IN IF IsRelativeTo(requested_path, project_dir)
       THEN [err |-> FALSE, path |-> requested_path]
       ELSE [err |-> TRUE, path |-> <<>>]

(***************************************************************************)
(* Disk space                                                              *)
(***************************************************************************)
SaveFileMinMB == 100
SaveStateMinMB == 50
CreateDirMinMB == 500

\* outcomes of shutil.disk_usage: free megabytes, or the inspection raising
DiskUsage == {[ok |-> TRUE, free |-> 10], [ok |-> TRUE, free |-> 75],
              [ok |-> TRUE, free |-> 1000], [ok |-> FALSE, free |-> 0]}

\* the same with the free space at each threshold
DiskUsageAtThresholds ==
    DiskUsage \cup {[ok |-> TRUE, free |-> 50], [ok |-> TRUE, free |-> 100],
                    [ok |-> TRUE, free |-> 500]}

\* a comparison that never finds the space low
space_is_never_low(free_mb, min_mb) == FALSE

\* check_disk_space line 55: free_mb < min_mb
space_is_low(free_mb, min_mb) == free_mb < min_mb

\* a check that reports no space when the inspection raises
check_disk_space_fail_closed(du, min_mb) ==
    IF du.ok THEN ~space_is_low(du.free, min_mb) ELSE FALSE

\* FileManager.check_disk_space
check_disk_space(du, min_mb) ==
    IF du.ok THEN ~space_is_low(du.free, min_mb) ELSE TRUE

\* what check_disk_space writes to the error log (lines 56 and 61)
disk_log(du, min_mb) ==
    IF ~du.ok THEN "Failed to check disk space"
    ELSE IF space_is_low(du.free, min_mb) THEN "Low disk space"
    ELSE ""

(***************************************************************************)
(* File contents and the filesystem                                        *)
(***************************************************************************)
\* a file holds plain text, or the JSON text of one document
Text(t) == [text |-> t, json |-> <<>>]

\* json.dumps: the JSON text of a dictionary
json_dumps(d) == [text |-> "", json |-> <<d>>]

\* json.loads raises on text that is not JSON
json_loads_fails(content) == content.json = <<>>

json_loads(content) == content.json[1]

MetadataName == ".metadata.json"

\* Path.mkdir(parents=True, exist_ok=True) on filesystem (f, d)
MkdirP(f, d, path) ==
    LET loc == Canonical(path) IN
    IF \E q \in Prefixes(loc) : q \in DOMAIN f
    THEN [ok |-> FALSE, dirs |-> d, created |-> {}]
    ELSE [ok |-> TRUE, dirs |-> d \cup Prefixes(loc), created |-> Prefixes(loc) \ d]

\* FileManager.create_project_directory; raised names the exception, "" for none
create_project_directory(f, d, project_id, du) ==
    IF ~check_disk_space(du, CreateDirMinMB)
    THEN [raised |-> "IOError", dirs |-> d, created |-> {}]
    ELSE LET m == MkdirP(f, d, WorkspacePath \o IdParts(project_id)) IN
         [raised |-> IF m.ok THEN "" ELSE "FileExistsError",
          dirs |-> m.dirs, created |-> m.created]

\* open(path, "w") succeeds iff the parent is a directory and path is not one
CanOpenWrite(f, d, path) ==
    /\ path # <<>>
    /\ path \notin d
    /\ Parent(path) \in d

\* open(path, "r") succeeds iff path is an existing regular file
CanOpenRead(f, d, path) == path \in DOMAIN f

\* FileManager.save_file on filesystem (f, d); touched: locations created or written
save_file(f, d, project_id, file_path, content, du) ==
    IF ~check_disk_space(du, SaveFileMinMB)
    THEN [ok |-> FALSE, files |-> f, dirs |-> d, touched |-> {}]
    ELSE LET m1 == MkdirP(f, d, WorkspacePath \o IdParts(project_id)) IN
         IF ~m1.ok
         THEN [ok |-> FALSE, files |-> f, dirs |-> d, touched |-> {}]
         ELSE LET full_path == get_safe_path(project_id, file_path) IN
              IF full_path.err
              THEN [ok |-> FALSE, files |-> f, dirs |-> m1.dirs, touched |-> m1.created]
              ELSE LET m2 == MkdirP(f, m1.dirs, Parent(full_path.path))
                       loc == Canonical(full_path.path)
                   IN IF ~m2.ok \/ ~CanOpenWrite(f, m2.dirs, loc)
                      THEN [ok |-> FALSE, files |-> f, dirs |-> m2.dirs,
                            touched |-> m1.created \cup m2.created]
                      ELSE [ok |-> TRUE, files |-> (loc :> content) @@ f, dirs |-> m2.dirs,
                            touched |-> m1.created \cup m2.created \cup {loc}]

\* the try block of FileManager.read_file (lines 107-110): raised names the
\* exception that leaves the block, "" when the content is returned
read_file_try(f, d, project_id, file_path) ==
    LET full_path == get_safe_path(project_id, file_path) IN
    IF full_path.err
    THEN [raised |-> "InvalidFilePathError", content |-> Text(""), touched |-> {}]
    ELSE LET loc == Canonical(full_path.path) IN
         IF CanOpenRead(f, d, loc)
         THEN [raised |-> "", content |-> f[loc], touched |-> {loc}]
         ELSE [raised |-> IF loc \in d THEN "IsADirectoryError" ELSE "FileNotFoundError",
               content |-> Text(""), touched |-> {}]

\* a read whose exceptions reach the caller
read_file_uncaught(f, d, project_id, file_path) ==
    read_file_try(f, d, project_id, file_path)

\* FileManager.read_file; both except clauses return the empty string
read_file(f, d, project_id, file_path) ==
    LET r == read_file_try(f, d, project_id, file_path) IN
    IF r.raised = "InvalidFilePathError"
    THEN [raised |-> "", content |-> Text(""), touched |-> {}]
    ELSE IF r.raised # ""
    THEN [raised |-> "", content |-> Text(""), touched |-> {}]
    ELSE r

(***************************************************************************)
(* Strings: a name is a sequence of tokens, so that prefix and suffix      *)
(* tests are computed                                                      *)
(***************************************************************************)
TokensOf ==
    (".metadata.json" :> <<".metadata.json">>) @@
    ("pkg.metadata.json" :> <<"pkg", ".metadata.json">>) @@
    ("main.py" :> <<"main", ".py">>) @@
    ("util.py" :> <<"util", ".py">>) @@
    ("test_main.py" :> <<"test_", "main", ".py">>) @@
    ("README.md" :> <<"README", ".md">>) @@
    ("passwd" :> <<"passwd">>) @@
    ("sub" :> <<"sub">>) @@
    ("lnk" :> <<"lnk">>)

\* str.endswith on a relative path (its last component decides)
str_endswith(relpath, suffix) ==
    /\ relpath # <<>>
    /\ LET toks == TokensOf[relpath[Len(relpath)]] IN toks[Len(toks)] = suffix

\* str.startswith on a relative path (the first component decides)
str_startswith(relpath, prefix) ==
    /\ relpath # <<>>
    /\ TokensOf[relpath[1]][1] = prefix

\* text with leading or trailing whitespace -> the text without it
Whitespaced == ("c1 " :> "c1")

\* str.strip
str_strip(content) ==
    IF content.text \in DOMAIN Whitespaced
    THEN [content EXCEPT !.text = Whitespaced[content.text]]
    ELSE content

\* the order in which os.walk reports the files of a project directory
WalkOrder ==
    << <<".metadata.json">>, <<"main.py">>, <<"pkg.metadata.json">>,
       <<"test_main.py">>, <<"README.md">>, <<"sub", "util.py">> >>

\* FileManager.get_project_files: relative paths of all files below the directory
get_project_files(f, d, project_id) ==
    LET project_dir == Canonical(WorkspacePath \o IdParts(project_id)) IN
    IF project_dir \notin d THEN <<>>
    ELSE SelectSeq(WalkOrder, LAMBDA r : (project_dir \o r) \in DOMAIN f)

\* FileManager.save_project_state
save_project_state(f, d, project_id, state_dict, du) ==
    IF ~check_disk_space(du, SaveStateMinMB)
    THEN [ok |-> FALSE, files |-> f, touched |-> {}]
    ELSE LET path == get_safe_path(project_id, Rel(<<MetadataName>>)) IN
         IF path.err \/ ~CanOpenWrite(f, d, Canonical(path.path))
         THEN [ok |-> FALSE, files |-> f, touched |-> {}]
         ELSE [ok |-> TRUE,
               files |-> (Canonical(path.path) :> json_dumps(state_dict)) @@ f,
               touched |-> {Canonical(path.path)}]

\* FileManager.load_project_state: <<>> stands for None, <<dict>> for a snapshot
load_project_state(f, d, project_id) ==
    LET path == get_safe_path(project_id, Rel(<<MetadataName>>)) IN
    IF path.err THEN <<>>
    ELSE LET loc == Canonical(path.path) IN
         IF loc \notin DOMAIN f THEN <<>>
         ELSE IF json_loads_fails(f[loc]) THEN <<>>
         ELSE <<json_loads(f[loc])>>

(***************************************************************************)
(* Project entity (models/project.py)                                      *)
(***************************************************************************)
\* ProjectStatus: member name -> value
ProjectStatus ==
    ("PENDING" :> "pending") @@ ("PLANNING" :> "planning") @@
    ("CODING" :> "coding") @@ ("TESTING" :> "testing") @@
    ("ANALYZING" :> "analyzing") @@ ("DOJO" :> "dojo_mode") @@
    ("COMPLETED" :> "completed") @@ ("FAILED" :> "failed")

\* datetime.isoformat / datetime.fromisoformat
isoformat(t) == [iso |-> t]

fromisoformat(s) == s.iso

\* ProjectState.__init__
NewProjectState(project_id, project_name, goal, tech_stack, now) ==
    [project_id |-> project_id, project_name |-> project_name, goal |-> goal,
     tech_stack |-> IF tech_stack = <<>> THEN <<"python">> ELSE tech_stack,
     status |-> "PENDING", created_at |-> now, updated_at |-> now,
     tasks |-> <<>>, files |-> <<>>, errors |-> <<>>, logs |-> <<>>,
     metadata |-> {}]

\* ProjectState.update_status
update_status(p, status, now) == [p EXCEPT !.status = status, !.updated_at = now]

\* ProjectState.add_file
add_file(p, file_path) == [p EXCEPT !.files = Append(@, file_path)]

\* ProjectState.add_error
add_error(p, error) == [p EXCEPT !.errors = Append(@, error)]

\* ProjectState.add_log
add_log(p, log_type, message, data, now) ==
    [p EXCEPT !.logs = Append(@, [type |-> log_type, message |-> message,
                                  data |-> data, timestamp |-> isoformat(now)])]

\* a to_dict that leaves the error list out of the snapshot
to_dict_without_errors(p) ==
    [project_id |-> p.project_id, project_name |-> p.project_name, goal |-> p.goal,
     status |-> ProjectStatus[p.status],
     created_at |-> isoformat(p.created_at), updated_at |-> isoformat(p.updated_at),
     tasks |-> p.tasks, files |-> p.files, logs |-> p.logs,
     metadata |-> p.metadata]

\* ProjectState.to_dict (tech_stack is not part of the snapshot)
to_dict(p) ==
    [project_id |-> p.project_id, project_name |-> p.project_name, goal |-> p.goal,
     status |-> ProjectStatus[p.status],
     created_at |-> isoformat(p.created_at), updated_at |-> isoformat(p.updated_at),
     tasks |-> p.tasks, files |-> p.files, errors |-> p.errors, logs |-> p.logs,
     metadata |-> p.metadata]

\* dict.get(key, default)
DictGet(data, key, default) == IF key \in DOMAIN data THEN data[key] ELSE default

RequiredKeys == {"project_id", "project_name", "goal", "status", "created_at", "updated_at"}

\* a lookup that falls back to PENDING for a value no member has
status_of_value_or_pending(value) ==
    IF \E m \in DOMAIN ProjectStatus : ProjectStatus[m] = value
    THEN <<CHOOSE m \in DOMAIN ProjectStatus : ProjectStatus[m] = value>>
    ELSE <<"PENDING">>

\* ProjectStatus(value): the member with that value; <<>> stands for ValueError
status_of_value(value) ==
    IF \E m \in DOMAIN ProjectStatus : ProjectStatus[m] = value
    THEN <<CHOOSE m \in DOMAIN ProjectStatus : ProjectStatus[m] = value>>
    ELSE <<>>

\* ProjectState.from_dict raises on a missing key or an unknown status value
from_dict_fails(data) ==
    \/ ~(RequiredKeys \subseteq DOMAIN data)
    \/ status_of_value(data.status) = <<>>

\* ProjectState.from_dict
from_dict(data) ==
    [project_id |-> data.project_id, project_name |-> data.project_name,
     goal |-> data.goal,
     tech_stack |-> DictGet(data, "tech_stack", <<"python">>),
     status |-> status_of_value(data.status)[1],
     created_at |-> fromisoformat(data.created_at),
     updated_at |-> fromisoformat(data.updated_at),
     tasks |-> DictGet(data, "tasks", <<>>),
     files |-> DictGet(data, "files", <<>>),
     errors |-> DictGet(data, "errors", <<>>),
     logs |-> DictGet(data, "logs", <<>>),
     metadata |-> DictGet(data, "metadata", {})]

(***************************************************************************)
(* Results of the last operation (what its caller observes)                *)
(***************************************************************************)
NoOut ==
    [op |-> "none", pid |-> "", fp |-> Rel(<<>>), ok |-> FALSE, content |-> Text(""),
     touched |-> {}, how |-> "", state |-> <<>>, listing |-> <<>>, n |-> 0,
     invoked |-> {}, limits |-> {}]

\* tokens that begin with a dot
DotTokens == {".metadata.json", ".py", ".md"}

\* number of files below the project directory whose name does not begin with a dot
NonHiddenCount(f, d, project_id) ==
    Len(SelectSeq(get_project_files(f, d, project_id),
                  LAMBDA r : TokensOf[r[Len(r)]][1] \notin DotTokens))

(***************************************************************************)
(* Store operations as called directly (StoreSpec)                         *)
(***************************************************************************)
StorePaths ==
    {Rel(<<"main.py">>), Rel(<<"sub", "util.py">>), Rel(<<"sub", "..", "main.py">>),
     Rel(<<"..", "..", "etc", "passwd">>), Rel(<<"..", "p2", "main.py">>),
     Abs(<<"etc", "passwd">>), Rel(<<"lnk", "passwd">>)}

\* paths that are read: the written ones, and one that names a directory
ReadPaths == StorePaths \cup {Rel(<<"sub">>)}

SnapshotInput(project_id) == to_dict(NewProjectState(project_id, "name", "goal", <<>>, 1))

SaveFile(project_id, file_path, content, du) ==
    LET r == save_file(files, dirs, project_id, file_path, content, du) IN
    /\ files' = r.files
    /\ dirs' = r.dirs
    /\ out' = [NoOut EXCEPT !.op = "save_file", !.pid = project_id, !.fp = file_path,
                            !.ok = r.ok, !.touched = r.touched,
                            !.how = disk_log(du, SaveFileMinMB)]
    /\ UNCHANGED <<bgtask, active_challenges, handles, gate, active_projects, runs, ps, cb, tasks>>

ReadFile(project_id, file_path) ==
    LET r == read_file(files, dirs, project_id, file_path) IN
    /\ out' = [NoOut EXCEPT !.op = "read_file", !.pid = project_id, !.fp = file_path,
                            !.ok = (r.touched # {}), !.content = r.content,
                            !.touched = r.touched, !.how = r.raised]
    /\ UNCHANGED <<bgtask, active_challenges, handles, gate, files, dirs, active_projects, runs, ps, cb, tasks>>

SaveProjectState(project_id, state_dict, du) ==
    LET r == save_project_state(files, dirs, project_id, state_dict, du) IN
    /\ files' = r.files
    /\ out' = [NoOut EXCEPT !.op = "save_project_state", !.pid = project_id,
                            !.fp = Rel(<<MetadataName>>), !.ok = r.ok,
                            !.touched = r.touched,
                            !.how = disk_log(du, SaveStateMinMB)]
    /\ UNCHANGED <<bgtask, active_challenges, handles, gate, dirs, active_projects, runs, ps, cb, tasks>>

CreateProjectDirectory(project_id, du) ==
    LET r == create_project_directory(files, dirs, project_id, du) IN
    /\ dirs' = r.dirs
    /\ out' = [NoOut EXCEPT !.op = "create_project_directory", !.pid = project_id,
                            !.ok = (r.raised = ""), !.touched = r.created,
                            !.how = disk_log(du, CreateDirMinMB)]
    /\ UNCHANGED <<bgtask, active_challenges, handles, gate, files, active_projects, runs, ps, cb, tasks>>

\* the thresholds the store passes to check_disk_space
MinMBs == {SaveStateMinMB, SaveFileMinMB, CreateDirMinMB}

CheckDiskSpace(du, min_mb) ==
    /\ out' = [NoOut EXCEPT !.op = "check_disk_space", !.n = min_mb,
                            !.ok = check_disk_space(du, min_mb),
                            !.how = disk_log(du, min_mb)]
    /\ UNCHANGED <<bgtask, active_challenges, handles, gate, files, dirs, active_projects, runs, ps, cb, tasks>>

LoadProjectState(project_id) ==
    LET r == load_project_state(files, dirs, project_id) IN
    /\ out' = [NoOut EXCEPT !.op = "load_project_state", !.pid = project_id,
                            !.fp = Rel(<<MetadataName>>), !.ok = (r # <<>>),
                            !.state = r,
                            !.touched = IF r # <<>>
                                        THEN {ProjectDir(project_id) \o <<MetadataName>>}
                                        ELSE {}]
    /\ UNCHANGED <<bgtask, active_challenges, handles, gate, files, dirs, active_projects, runs, ps, cb, tasks>>

GetProjectFiles(project_id) ==
    /\ out' = [NoOut EXCEPT !.op = "get_project_files", !.pid = project_id,
                            !.ok = TRUE,
                            !.listing = get_project_files(files, dirs, project_id)]
    /\ UNCHANGED <<bgtask, active_challenges, handles, gate, files, dirs, active_projects, runs, ps, cb, tasks>>

EmptyMap == [x \in {} |-> x]

\* no file is open
NoHandles == <<>>

\* asyncio.Semaphore(max_concurrent) with GROQ_MAX_CONCURRENT unset
MaxConcurrent == 3

\* the GroqClient instances of the process: the module-level groq_client, and
\* the ones TesterAgent and FixerAgent construct for themselves
GroqClients == {"groq_client", "tester.groq_client", "fixer.groq_client"}

\* the client each agent sends its requests through
ClientOf ==
    [a \in {"planner", "developer", "enforcer", "analyzer", "saboteur"} |-> "groq_client"]
    @@ ("tester" :> "tester.groq_client") @@ ("fixer" :> "fixer.groq_client")

\* GroqClient.generate: max_retries
MaxRetries == 3

\* the agents whose requests are followed, and the requests in progress:
\* <<agent, position, attempt>> -> how many requests are there
GateCallers == {"saboteur", "tester", "fixer"}

CallKinds == GateCallers \X {"waiting", "inside"} \X (0..(MaxRetries - 1))

\* every instance starts with its own semaphore, all slots free; no request
NewGate == [sem |-> [c \in GroqClients |-> MaxConcurrent],
            calls |-> [k \in CallKinds |-> 0]]

\* the external collaborators whose invocations are counted
Collaborators == {"planner", "developer", "enforcer", "tester", "verifier", "fixer"}

\* a workspace that already holds the directory of project p1
Init ==
    /\ active_challenges = EmptyMap
    /\ handles = NoHandles
    /\ gate = NewGate
    /\ bgtask = EmptyMap
    /\ files = (<<"etc", "passwd">> :> Text("secret"))
    /\ dirs = {<<>>, <<"ws">>, <<"etc">>, <<"ws", "p1">>}
    /\ active_projects = EmptyMap
    /\ runs = EmptyMap
    /\ out = NoOut
    /\ ps = NewProjectState("p1", "name", "goal", <<>>, 1)
    /\ cb = FALSE
    /\ tasks = <<>>

StoreNext ==
    \/ \E id \in ProjIds, fp \in StorePaths, du \in DiskUsage :
          SaveFile(id, fp, Text("c1"), du)
    \/ \E id \in ProjIds, fp \in ReadPaths : ReadFile(id, fp)
    \/ \E id \in ProjIds, du \in DiskUsage : SaveProjectState(id, SnapshotInput(id), du)
    \/ \E id \in ProjIds : LoadProjectState(id)
    \/ \E id \in ProjIds : GetProjectFiles(id)
    \/ \E id \in ProjIds, du \in DiskUsage : CreateProjectDirectory(id, du)
    \/ \E du \in DiskUsageAtThresholds, min_mb \in MinMBs : CheckDiskSpace(du, min_mb)

StoreSpec == Init /\ [][StoreNext]_vars

(***************************************************************************)
(* Store writes for arbitrary project ids (ConfineSpec)                    *)
(***************************************************************************)
\* ids as the store receives them: a plain name, "..", and one with a separator
ConfineIds == {"p1", "..", "../etc"}

ConfinePaths == {Rel(<<"main.py">>), Rel(<<"passwd">>)}

ConfineDiskUsage == {[ok |-> TRUE, free |-> 1000]}

ConfineNext ==
    \/ \E id \in ConfineIds, fp \in ConfinePaths, du \in ConfineDiskUsage :
          SaveFile(id, fp, Text("c1"), du)
    \/ \E id \in ConfineIds, du \in ConfineDiskUsage :
          SaveProjectState(id, SnapshotInput(id), du)

ConfineSpec == Init /\ [][ConfineNext]_vars

\* C37: for every project id, whatever save_file and save_project_state
\* create or write lies beneath the store root, inside the subdirectory of
\* the root that belongs to the project; nothing outside the root changes.
C37_StoreConfinement ==
    /\ \A loc \in out.touched :
          /\ IsRelativeTo(loc, ProjectDir(out.pid))
          /\ IsRelativeTo(ProjectDir(out.pid), WorkspacePath)
          /\ Len(ProjectDir(out.pid)) > Len(WorkspacePath)
    /\ \A loc \in DOMAIN files : ~IsRelativeTo(loc, WorkspacePath) => loc = <<"etc", "passwd">>
    /\ files[<<"etc", "passwd">>] = Text("secret")

\* the same for ids that are a single plain name
ConfinementOfPlainIds ==
    out.pid \in ProjIds =>
        \A loc \in out.touched : IsRelativeTo(loc, WorkspacePath \o <<out.pid>>)

(***************************************************************************)
(* C3: path safety                                                         *)
(***************************************************************************)
\* the canonical form of the requested path lies outside the project subdirectory
Escapes(project_id, file_path) ==
    ~IsRelativeTo(Canonical(PathJoin(ProjectDir(project_id), file_path)),
                  ProjectDir(project_id))

\* C3: a path whose canonical form lies outside the project subdirectory is
\* rejected by _get_safe_path, the read or write that carried it fails (False,
\* or the empty string), and no store operation creates, writes or reads a
\* location outside the subdirectory of the project id it was called with.
C3_PathSafety ==
    /\ \A loc \in out.touched : IsRelativeTo(loc, ProjectDir(out.pid))
    /\ (out.op \in {"save_file", "read_file"} /\ Escapes(out.pid, out.fp)) =>
          /\ get_safe_path(out.pid, out.fp).err
          /\ ~out.ok
          /\ out.content = Text("")
    /\ files[<<"etc", "passwd">>] = Text("secret")

\* a write to p2 with an escaping path passed the space check, created the
\* project directory, was rejected by the guard and failed, while another
\* project already holds a file
C3_Witness ==
    /\ out.op = "save_file"
    /\ out.pid = "p2"
    /\ Escapes(out.pid, out.fp)
    /\ out.touched = {<<"ws", "p2">>}
    /\ ~out.ok
    /\ (ProjectDir("p1") \o <<"main.py">>) \in DOMAIN files

\* C24: every collaborator call an orchestrator operation issues is made
\* through _run_with_timeout with a time limit (<<>> stands for none).
C24_AllCallsTimed ==
    \A c \in out.limits : c[2] # <<>>

\* C22: with free space measured below the threshold of the operation (100 MB
\* for save_file, 50 MB for save_project_state, both below the 500 MB of
\* create_project_directory) the operation reports failure and the filesystem
\* is unchanged: no file and no directory is created or changed.
C22_SpaceGuard ==
    /\ SaveFileMinMB < CreateDirMinMB
    /\ SaveStateMinMB < CreateDirMinMB
    /\ [][ \A du \in DiskUsage :
            /\ ( /\ out'.op = "save_file"
                 /\ du.ok /\ du.free < 100
                 /\ SaveFile(out'.pid, out'.fp, Text("c1"), du) ) =>
                   (~out'.ok /\ files' = files /\ dirs' = dirs)
            /\ ( /\ out'.op = "save_project_state"
                 /\ du.ok /\ du.free < 50
                 /\ SaveProjectState(out'.pid, SnapshotInput(out'.pid), du) ) =>
                   (~out'.ok /\ files' = files /\ dirs' = dirs)
            /\ ( /\ out'.op = "create_project_directory"
                 /\ du.ok /\ du.free < 500
                 /\ CreateProjectDirectory(out'.pid, du) ) =>
                   (~out'.ok /\ files' = files /\ dirs' = dirs) ]_vars

\* a write that would otherwise create the directory of p2 and main.py in it
\* was refused for low space, while p1 holds a file
C22_Witness ==
    /\ out.op = "save_file"
    /\ out.pid = "p2"
    /\ out.fp = Rel(<<"main.py">>)
    /\ out.how = "Low disk space"
    /\ ~out.ok
    /\ <<"ws", "p2">> \notin dirs
    /\ (ProjectDir("p1") \o <<"main.py">>) \in DOMAIN files

\* C23: check_disk_space returns True when the inspection raises, and False
\* only when the inspection succeeds and the free space is below the minimum;
\* a write issued while the inspection raises has the outcome it has with
\* ample free space.
C23_FailOpen ==
    [][ \A du \in DiskUsageAtThresholds :
          /\ (out'.op = "check_disk_space" /\ CheckDiskSpace(du, out'.n)) =>
                /\ ~du.ok => out'.ok
                /\ ~out'.ok <=> (du.ok /\ du.free < out'.n)
          /\ ( /\ out'.op = "save_file"
               /\ ~du.ok
               /\ SaveFile(out'.pid, out'.fp, Text("c1"), du) ) =>
                 LET r == save_file(files, dirs, out'.pid, out'.fp, Text("c1"),
                                    [ok |-> TRUE, free |-> 1000])
                 IN out'.ok = r.ok /\ files' = r.files /\ dirs' = r.dirs
          /\ ( /\ out'.op = "save_project_state"
               /\ ~du.ok
               /\ SaveProjectState(out'.pid, SnapshotInput(out'.pid), du) ) =>
                 LET r == save_project_state(files, dirs, out'.pid,
                                             SnapshotInput(out'.pid),
                                             [ok |-> TRUE, free |-> 1000])
                 IN out'.ok = r.ok /\ files' = r.files ]_vars

\* a snapshot was written while the inspection of free space raised
C23_Witness ==
    /\ out.op = "save_project_state"
    /\ out.how = "Failed to check disk space"
    /\ out.ok
    /\ out.touched # {}
    /\ (ProjectDir(out.pid) \o <<MetadataName>>) \in DOMAIN files

\* the location a read is asked for
ReadLoc(project_id, file_path) ==
    Canonical(PathJoin(ProjectDir(project_id), file_path))

\* C21: read_file never raises; it returns the empty string when the path
\* escapes the project directory, names no file, or names a directory, and
\* the content of the file in every other case.
C21_ReadFileTotal ==
    out.op = "read_file" =>
        /\ out.how = ""
        /\ IF \/ Escapes(out.pid, out.fp)
              \/ ReadLoc(out.pid, out.fp) \notin DOMAIN files
           THEN out.content = Text("")
           ELSE out.content = files[ReadLoc(out.pid, out.fp)]

\* a read of a path that names a directory returned the empty string, after a
\* read of an existing file would return text
C21_Witness ==
    /\ out.op = "read_file"
    /\ out.fp = Rel(<<"sub">>)
    /\ ReadLoc(out.pid, out.fp) \in dirs
    /\ out.content = Text("")
    /\ (ProjectDir(out.pid) \o <<"main.py">>) \in DOMAIN files

(***************************************************************************)
(* Orchestrator (agents/orchestrator.py) and its callers (main.py)         *)
(***************************************************************************)
\* AgentOrchestrator.get_project_state on cache ap and filesystem (f, d)
get_project_state(ap, f, d, project_id, du, now) ==
    IF project_id \in DOMAIN ap
    THEN [state |-> <<ap[project_id]>>, ap |-> ap, files |-> f, how |-> "cache"]
    ELSE LET state_dict == load_project_state(f, d, project_id) IN
         IF /\ state_dict # <<>>
            /\ DOMAIN state_dict[1] # {}
            /\ ~from_dict_fails(state_dict[1])
         THEN LET state == from_dict(state_dict[1]) IN
              [state |-> <<state>>, ap |-> (project_id :> state) @@ ap,
               files |-> f, how |-> "snapshot"]
         ELSE IF Canonical(WorkspacePath \o IdParts(project_id)) \in d
         THEN LET s0 == NewProjectState(project_id, "Recovered Project",
                                        "Recovered from existing files", <<"unknown">>, now)
                  s1 == [s0 EXCEPT !.status = "COMPLETED"]
                  listing == get_project_files(f, d, project_id)
                  s2 == [s1 EXCEPT !.files =
                           SelectSeq(listing, LAMBDA r : ~str_endswith(r, ".metadata.json"))]
                  state == add_log(s2, "recovery",
                                   "Project state recovered from disk files", {}, now)
                  sv == save_project_state(f, d, project_id, to_dict(state), du)
              IN [state |-> <<state>>, ap |-> (project_id :> state) @@ ap,
                  files |-> sv.files, how |-> "recovered"]
         ELSE [state |-> <<>>, ap |-> ap, files |-> f, how |-> "absent"]

(***************************************************************************)
(* Planner (agents/planner.py)                                             *)
(***************************************************************************)
\* a parsed JSON value: a mapping or not; the keys "error", "files" and
\* "dependencies" are absent (<<>>) or carry a value (<<value>>)
JsonValue(mapping, error, file_list, dependencies) ==
    [mapping |-> mapping, error |-> error, files |-> file_list,
     dependencies |-> dependencies]

FileSpec(path, language) == [path |-> path, language |-> language]

\* PlannerAgent._get_fallback_plan
get_fallback_plan(error) ==
    JsonValue(TRUE, <<error>>,
              << << FileSpec(<<"main.py">>, "python"),
                    FileSpec(<<"README.md">>, "markdown") >> >>,
              << <<>> >>)

\* what groq_client.generate_structured gives back to create_plan
PlannerResults ==
    {[raised |-> TRUE, plan |-> JsonValue(FALSE, <<>>, <<>>, <<>>)],
     [raised |-> FALSE, plan |-> JsonValue(FALSE, <<>>, <<>>, <<>>)],
     [raised |-> FALSE, plan |-> JsonValue(TRUE, <<"Failed to parse JSON">>, <<>>, <<>>)],
     [raised |-> FALSE, plan |-> JsonValue(TRUE, <<"x">>,
                                           << <<FileSpec(<<"util.py">>, "python")>> >>, <<>>)],
     [raised |-> FALSE, plan |-> JsonValue(TRUE, <<>>, <<>>, << <<"requests">> >>)],
     [raised |-> FALSE, plan |-> JsonValue(TRUE, <<>>, << <<>> >>, <<>>)],
     [raised |-> FALSE, plan |-> JsonValue(TRUE, <<>>,
                                           << <<FileSpec(<<"util.py">>, "python")>> >>, <<>>)],
     [raised |-> FALSE, plan |-> JsonValue(TRUE, <<>>,
                                           << <<FileSpec(<<"util.py">>, "python")>> >>,
                                           << <<"requests">> >>)]}

\* PlannerAgent.create_plan applied to that result
create_plan(result) ==
    IF result.raised THEN get_fallback_plan("str(e)")
    ELSE LET plan == result.plan IN
         IF ~plan.mapping \/ plan.error # <<>> \/ plan.files = <<>> \/ plan.files[1] = <<>>
         THEN get_fallback_plan(None)
         ELSE [plan EXCEPT !.dependencies = IF @ = <<>> THEN << <<>> >> ELSE @]

CreatePlan(result) ==
    /\ out' = [NoOut EXCEPT !.op = "create_plan", !.state = <<result, create_plan(result)>>]
    /\ UNCHANGED <<bgtask, active_challenges, handles, gate, files, dirs, active_projects, runs,
                   ps, cb, tasks>>

PlanNext == \E result \in PlannerResults : CreatePlan(result)

PlanSpec == Init /\ [][PlanNext]_vars

\* create_plan returns the fallback plan (main.py as python, README.md as
\* markdown, no dependencies) when the result is not a mapping, carries an
\* error marker, has no or an empty file list, or the call raised; a valid
\* result is returned with its own file list
FallbackPlanOnInvalidResult ==
    out.op = "create_plan" =>
        LET result == out.state[1]
            plan == out.state[2]
            invalid == \/ result.raised
                       \/ ~result.plan.mapping
                       \/ result.plan.error # <<>>
                       \/ result.plan.files \in {<<>>, << <<>> >>}
        IN IF invalid
           THEN /\ plan.files = << << FileSpec(<<"main.py">>, "python"),
                                      FileSpec(<<"README.md">>, "markdown") >> >>
                /\ plan.dependencies = << <<>> >>
           ELSE plan.files = result.plan.files

\* how the external collaborators behave while a run is in progress
Scenarios ==
    {[plan |-> "single_main_py", planner |-> "ok", developer |-> "ok", verifier |-> "pass",
      enforcer |-> "compliant", setup |-> "ok", fixer |-> "ok"],
     [plan |-> "single_main_py", planner |-> "ok", developer |-> "ok",
      verifier |-> "always_fail", enforcer |-> "compliant", setup |-> "ok", fixer |-> "ok"],
     [plan |-> "single_main_py", planner |-> "timeout", developer |-> "ok",
      verifier |-> "pass", enforcer |-> "compliant", setup |-> "ok", fixer |-> "ok"],
     [plan |-> "single_main_py", planner |-> "ok", developer |-> "error",
      verifier |-> "pass", enforcer |-> "compliant", setup |-> "ok", fixer |-> "ok"],
     [plan |-> "single_main_py", planner |-> "invalid", developer |-> "ok",
      verifier |-> "pass", enforcer |-> "compliant", setup |-> "ok", fixer |-> "ok"],
     [plan |-> "single_main_py", planner |-> "error", developer |-> "ok",
      verifier |-> "pass", enforcer |-> "compliant", setup |-> "ok", fixer |-> "ok"],
     [plan |-> "util_py_then_main_py", planner |-> "ok", developer |-> "timeout_on_first",
      verifier |-> "pass", enforcer |-> "compliant", setup |-> "ok", fixer |-> "ok"],
     [plan |-> "single_main_py", planner |-> "ok", developer |-> "ok",
      verifier |-> "pass", enforcer |-> "non_compliant", setup |-> "ok", fixer |-> "ok"],
     [plan |-> "main_py_with_dependency", planner |-> "ok", developer |-> "ok",
      verifier |-> "pass", enforcer |-> "compliant", setup |-> "fails", fixer |-> "ok"],
     [plan |-> "single_main_py", planner |-> "ok", developer |-> "ok",
      verifier |-> "always_fail", enforcer |-> "compliant", setup |-> "ok",
      fixer |-> "timeout"],
     [plan |-> "single_main_py", planner |-> "ok", developer |-> "ok",
      verifier |-> "timeout", enforcer |-> "compliant", setup |-> "ok",
      fixer |-> "ok"]}

\* AgentOrchestrator.create_project: the entity is created, cached and saved,
\* update_progress is defined, and the coroutine returns None without having
\* invoked a collaborator: the method ends where _run_with_timeout is defined
\* (line 75), and the stage code that follows (lines 85-265) belongs to
\* _run_with_timeout, after its return and raise, where it is never executed.
create_project_call(ap, f, d, rs, project_id, websocket_callback, sc, du, now) ==
    LET p0 == NewProjectState(project_id, "name", "goal", <<>>, now)
        project_state == [p0 EXCEPT !.metadata = {<<"style_guide", None>>,
                                                  <<"spec_constraints", None>>}]
        sv == save_project_state(f, d, project_id, to_dict(project_state), du)
    IN [ap |-> (project_id :> project_state) @@ ap,
        files |-> sv.files,
        runs |-> (project_id :> [ended |-> TRUE, returned |-> None, raised |-> FALSE,
                                 invoked |-> [c \in Collaborators |-> 0],
                                 scenario |-> sc]) @@ rs,
        out |-> [NoOut EXCEPT !.op = "create_project", !.pid = project_id,
                              !.ok = sv.ok, !.touched = sv.touched]]

\* a call of create_project on the orchestrator of the process
create_project(project_id, websocket_callback, sc, du, now) ==
    LET r == create_project_call(active_projects, files, dirs, runs, project_id,
                                 websocket_callback, sc, du, now)
    IN /\ active_projects' = r.ap
       /\ files' = r.files
       /\ runs' = r.runs
       /\ out' = r.out
       /\ UNCHANGED <<bgtask, active_challenges, handles, gate, dirs, ps, cb, tasks>>

\* main.py get_project: GET /api/projects/{project_id}
get_project(project_id, du, now) ==
    LET r == get_project_state(active_projects, files, dirs, project_id, du, now) IN
    /\ active_projects' = r.ap
    /\ files' = r.files
    /\ out' = [NoOut EXCEPT !.op = "get_project_state", !.pid = project_id,
                            !.ok = (r.state # <<>>), !.how = r.how, !.state = r.state,
                            !.n = NonHiddenCount(files, dirs, project_id)]
    /\ UNCHANGED <<bgtask, active_challenges, handles, gate, dirs, runs, ps, cb, tasks>>

\* paths and content a client sends to POST /api/projects/{project_id}/files
ClientPaths == {Rel(<<"main.py">>), Rel(<<"pkg.metadata.json">>), Rel(<<MetadataName>>)}

\* the JSON text of a snapshot that a client composed: a completed project
\* whose file list names util.py
ClientSnapshot ==
    json_dumps(to_dict([NewProjectState("p2", "name", "goal", <<>>, 1)
                          EXCEPT !.status = "COMPLETED", !.files = << <<"util.py">> >>]))

\* <<path, content>> of the requests
ClientWrites ==
    (ClientPaths \X {Text("c1")}) \cup {<<Rel(<<MetadataName>>), ClientSnapshot>>}

\* main.py save_file_content
save_file_content(project_id, file_path, content, du) ==
    LET r == save_file(files, dirs, project_id, file_path, content, du) IN
    /\ files' = r.files
    /\ dirs' = r.dirs
    /\ out' = [NoOut EXCEPT !.op = "save_file", !.pid = project_id, !.fp = file_path,
                            !.ok = r.ok, !.touched = r.touched]
    /\ UNCHANGED <<bgtask, active_challenges, handles, gate, active_projects, runs, ps, cb, tasks>>

AnalyzedSuffixes == {".py", ".js", ".ts", ".go", ".html", ".css", ".md"}

\* AgentOrchestrator.analyze_project; outcome is what the analyzer call does
analyze_project(project_id, outcome, du, now) ==
    LET r == get_project_state(active_projects, files, dirs, project_id, du, now)
        project_state == IF r.state # <<>> THEN r.state[1]
                         ELSE NewProjectState(project_id, project_id, "Existing Project", <<>>, now)
        ap1 == IF r.state # <<>> THEN r.ap ELSE (project_id :> project_state) @@ r.ap
        walked == SelectSeq(get_project_files(r.files, dirs, project_id),
                            LAMBDA x : \E sfx \in AnalyzedSuffixes : str_endswith(x, sfx))
        reads == {read_file(r.files, dirs, project_id, Rel(walked[i])) : i \in 1..Len(walked)}
    IN /\ files' = r.files
       /\ IF walked = <<>>
          THEN /\ active_projects' = ap1
               /\ out' = [NoOut EXCEPT !.op = "analyze_project", !.pid = project_id,
                                       !.how = "no_source_files"]
          ELSE /\ Len(project_state.logs) < MaxLogs
               /\ active_projects' =
                     IF outcome = "ok"
                     THEN (project_id :> add_log(project_state, "analysis_complete",
                                                 "Codebase analysis finished",
                                                 {<<"debt_items", 0>>}, now)) @@ ap1
                     ELSE ap1
               /\ out' = [NoOut EXCEPT !.op = "analyze_project", !.pid = project_id,
                                       !.ok = (outcome = "ok"), !.how = outcome,
                                       !.touched = UNION {x.touched : x \in reads},
                                       !.limits = {<<"analyzer", <<120>> >>}]
       /\ UNCHANGED <<bgtask, active_challenges, handles, gate, dirs, runs, ps, cb, tasks>>

\* dict.get(key): <<>> stands for None
challenge_get(challenges, project_id) ==
    IF project_id \in DOMAIN challenges THEN <<challenges[project_id]>> ELSE <<>>

\* del self.active_challenges[project_id]
challenge_del(challenges, project_id) ==
    [k \in DOMAIN challenges \ {project_id} |-> challenges[k]]

\* a selection that takes every recorded file
all_recorded_files(file_list) == file_list

\* start_dojo_challenge line 347: source files that are not test artifacts
source_files(file_list) ==
    SelectSeq(file_list, LAMBDA x : /\ ~str_startswith(x, "test_")
                                    /\ \E sfx \in {".py", ".js", ".go"} : str_endswith(x, sfx))

\* log entries an entity may hold when a challenge is started
MaxDojoLogs == 3

\* what the call of the saboteur under its timeout does
SabotageOutcomes == {"ok", "no_json", "timeout", "error"}

\* a handler that goes on with the original code when the saboteur timed out
run_sabotage_ignoring_timeout(outcome, original_code) ==
    IF outcome = "error"
    THEN [raised |-> TRUE, sabotaged_code |-> original_code, hint |-> "", intel |-> ""]
    ELSE IF outcome = "ok"
    THEN [raised |-> FALSE, sabotaged_code |-> Text("bug"),
          hint |-> "hint", intel |-> "intel"]
    ELSE [raised |-> FALSE, sabotaged_code |-> original_code,
          hint |-> "Systems failing. No diagnostic data.",
          intel |-> "Logic breach in core modules."]

\* start_dojo_challenge lines 361-372: the saboteur is awaited under a
\* timeout; a timeout or an error of the saboteur is raised to the caller; a
\* result without the expected keys yields the original code and default texts
run_sabotage(outcome, original_code) ==
    IF outcome \in {"timeout", "error"}
    THEN [raised |-> TRUE, sabotaged_code |-> original_code, hint |-> "", intel |-> ""]
    ELSE IF outcome = "ok"
    THEN [raised |-> FALSE, sabotaged_code |-> Text("bug"),
          hint |-> "hint", intel |-> "intel"]
    ELSE [raised |-> FALSE, sabotaged_code |-> original_code,
          hint |-> "Systems failing. No diagnostic data.",
          intel |-> "Logic breach in core modules."]

\* AgentOrchestrator.start_dojo_challenge; pick is the index random.choice takes
start_dojo_challenge(project_id, pick, outcome, du, now) ==
    LET r == get_project_state(active_projects, files, dirs, project_id, du, now)
        res == [NoOut EXCEPT !.op = "start_dojo_challenge", !.pid = project_id]
    IN
    /\ UNCHANGED <<bgtask, runs, ps, cb, tasks, handles, gate>>
    /\ IF r.state = <<>>
       THEN /\ pick = 1 /\ outcome = "ok"
            /\ active_projects' = r.ap
            /\ files' = r.files
            /\ out' = [res EXCEPT !.how = "not_found"]
            /\ UNCHANGED <<bgtask, dirs, active_challenges>>
       ELSE
       LET project_state == r.state[1]
           candidates == source_files(project_state.files)
       IN
       IF candidates = <<>>
       THEN /\ pick = 1 /\ outcome = "ok"
            /\ active_projects' = r.ap
            /\ files' = r.files
            /\ out' = [res EXCEPT !.how = "no_source_files"]
            /\ UNCHANGED <<bgtask, dirs, active_challenges>>
       ELSE
       /\ pick \in 1..Len(candidates)
       /\ LET target_file == candidates[pick]
              original_code == read_file(r.files, dirs, project_id, Rel(target_file)).content
              sabotage_result == run_sabotage(outcome, original_code)
              sv == save_file(r.files, dirs, project_id, Rel(target_file),
                              sabotage_result.sabotaged_code, du)
              challenge_id == <<"dojo_", now>>
          IN IF sabotage_result.raised
             THEN /\ active_projects' = r.ap
                  /\ files' = r.files
                  /\ out' = [res EXCEPT !.how = outcome, !.fp = Rel(target_file),
                                        !.invoked = {"saboteur"}, !.limits = {<<"saboteur", <<60>> >>}]
                  /\ UNCHANGED <<bgtask, dirs, active_challenges>>
             ELSE /\ Len(project_state.logs) < MaxDojoLogs
                  /\ files' = sv.files
                  /\ dirs' = sv.dirs
                  /\ active_challenges' =
                        (project_id :> [id |-> challenge_id, file |-> target_file,
                                        start_time |-> now, original_code |-> original_code,
                                        hint |-> sabotage_result.hint,
                                        intel |-> sabotage_result.intel]) @@ active_challenges
                  /\ active_projects' =
                        (project_id :> add_log(project_state, "dojo_challenge",
                                               "Dojo Challenge Started: Sabotaged",
                                               {<<"challenge_id", challenge_id>>,
                                                <<"intel", sabotage_result.intel>>}, now)) @@ r.ap
                  /\ out' = [res EXCEPT !.ok = TRUE, !.how = "started", !.fp = Rel(target_file),
                                        !.invoked = {"saboteur"}, !.limits = {<<"saboteur", <<60>> >>}, !.touched = sv.touched]

\* what running the test artifact reports
TestOutcomes == {"pass", "fail"}

\* TesterAgent.run_test_file: the exit status of the test command decides
run_test_file(outcome) ==
    IF outcome = "pass"
    THEN [success |-> TRUE, error |-> None]
    ELSE [success |-> FALSE, error |-> "stderr of the test run"]

\* a verification that forgets the challenge whatever the result
challenges_after_any_verify(challenges, project_id, success) ==
    challenge_del(challenges, project_id)

\* verify_dojo_fix lines 411 and 430: the challenge is deleted on success only
challenges_after_verify(challenges, project_id, success) ==
    IF success THEN challenge_del(challenges, project_id) ELSE challenges

\* a check that never finds the challenge missing
challenge_assumed_present(challenge) == FALSE

\* verify_dojo_fix line 402: `if not challenge`
challenge_missing(challenge) == challenge = <<>>

\* AgentOrchestrator.verify_dojo_fix
verify_dojo_fix(project_id, outcome, du, now) ==
    LET r == get_project_state(active_projects, files, dirs, project_id, du, now)
        challenge == challenge_get(active_challenges, project_id)
        res == [NoOut EXCEPT !.op = "verify_dojo_fix", !.pid = project_id]
    IN
    /\ active_projects' = r.ap
    /\ files' = r.files
    /\ UNCHANGED <<bgtask, dirs, runs, ps, cb, tasks, handles, gate>>
    /\ IF challenge_missing(challenge)
       THEN /\ outcome = "pass"
            /\ out' = [res EXCEPT !.how = "no_active_challenge"]
            /\ UNCHANGED active_challenges
       ELSE IF challenge = <<>>
       THEN /\ outcome = "pass"
            /\ out' = [res EXCEPT !.how = "TypeError"]
            /\ UNCHANGED active_challenges
       ELSE
       LET target_file == challenge[1].file
           current_code == read_file(r.files, dirs, project_id, Rel(target_file)).content
           duration == now - challenge[1].start_time
       IN
       IF str_strip(current_code) = str_strip(challenge[1].original_code)
       THEN /\ outcome = "pass"
            /\ active_challenges' = challenges_after_verify(active_challenges, project_id, TRUE)
            /\ out' = [res EXCEPT !.ok = TRUE, !.how = "restored", !.fp = Rel(target_file),
                                  !.n = duration]
       ELSE LET test_result == run_test_file(outcome) IN
            /\ active_challenges' =
                  challenges_after_verify(active_challenges, project_id, test_result.success)
            /\ out' = [res EXCEPT !.ok = test_result.success,
                                  !.how = IF test_result.success THEN "tests_passed"
                                          ELSE test_result.error,
                                  !.fp = Rel(target_file), !.n = duration,
                                  !.invoked = {"tester"},
                                  !.limits = {<<"tester", <<>> >>}]

\* the process is restarted: the in-memory maps are empty again
Restart ==
    /\ active_projects # EmptyMap
    /\ active_projects' = EmptyMap
    /\ runs' = EmptyMap
    /\ active_challenges' = EmptyMap
    /\ UNCHANGED <<bgtask, handles, gate, files, dirs, out, ps, cb, tasks>>

\* the project ids, disk conditions and clock readings of the orchestrator runs
RunIds == {"p2"}
RunDiskUsage == {[ok |-> TRUE, free |-> 10], [ok |-> TRUE, free |-> 1000]}
RunTimes == {1}

Next ==
    \/ \E id \in RunIds, wc \in BOOLEAN, sc \in Scenarios, du \in RunDiskUsage, now \in RunTimes :
          create_project(id, wc, sc, du, now)
    \/ \E id \in RunIds, du \in RunDiskUsage, now \in RunTimes : get_project(id, du, now)
    \/ \E id \in RunIds, w \in ClientWrites, du \in RunDiskUsage :
          save_file_content(id, w[1], w[2], du)
    \/ \E id \in RunIds, o \in {"ok", "timeout", "error"}, du \in RunDiskUsage, now \in RunTimes :
          analyze_project(id, o, du, now)
    \/ Restart

Spec == Init /\ [][Next]_vars

(***************************************************************************)
(* The challenge sub-mode (DojoSpec): start_dojo_challenge and             *)
(* verify_dojo_fix on projects whose files the client writes and repairs   *)
(***************************************************************************)
\* <<path, content>> of the requests: a source file, the same text followed
\* by a blank, and a test artifact
DojoWrites == {<<Rel(<<"main.py">>), Text("c1")>>, <<Rel(<<"main.py">>), Text("c1 ")>>,
               <<Rel(<<"test_main.py">>), Text("c1")>>}

DojoScenario == [plan |-> "single_main_py", planner |-> "ok", developer |-> "ok",
                 verifier |-> "pass", enforcer |-> "compliant", setup |-> "ok", fixer |-> "ok"]

DojoNext ==
    \/ \E id \in RunIds, pick \in 1..MaxList, o \in SabotageOutcomes,
          du \in RunDiskUsage, now \in RunTimes : start_dojo_challenge(id, pick, o, du, now)
    \/ \E id \in RunIds, o \in TestOutcomes, du \in RunDiskUsage, now \in RunTimes :
          verify_dojo_fix(id, o, du, now)
    \/ \E id \in RunIds, w \in DojoWrites, du \in RunDiskUsage :
          save_file_content(id, w[1], w[2], du)
    \/ \E id \in RunIds, du \in RunDiskUsage, now \in RunTimes : get_project(id, du, now)
    \/ \E id \in RunIds, du \in RunDiskUsage, now \in RunTimes :
          create_project(id, FALSE, DojoScenario, du, now)
    \/ Restart

DojoSpec == Init /\ [][DojoNext]_vars

(***************************************************************************)
(* Environment setup as called directly (SetupSpec)                        *)
(***************************************************************************)
SetupLanguages == {"python", "javascript", "typescript", "go"}

\* what the install subprocess does
SetupOutcomes == {"installed", "exit_nonzero", "timeout", "command_not_found"}

\* AgentOrchestrator._install_dependencies; raised names the exception that
\* leaves the method ("" for none), logged the line it writes about a failure.
\* get_project_dir returns a str, so line 275 applies "/" to two strings.
install_dependencies(language, outcome) ==
    IF language = "python"
    THEN [raised |-> "", ran |-> {"pip install"},
          logged |-> IF outcome \in {"timeout", "command_not_found"}
                     THEN "Failed to install dependencies" ELSE ""]
    ELSE IF language \in {"javascript", "typescript"}
    THEN [raised |-> "TypeError", ran |-> {}, logged |-> ""]
    ELSE [raised |-> "", ran |-> {},
          logged |-> "Dependency installation not supported"]

InstallDependencies(project_id, language, outcome) ==
    LET r == install_dependencies(language, outcome) IN
    /\ out' = [NoOut EXCEPT !.op = "_install_dependencies", !.pid = project_id,
                            !.ok = (r.raised = ""), !.how = r.raised,
                            !.invoked = r.ran, !.content = Text(r.logged)]
    /\ UNCHANGED <<bgtask, active_challenges, handles, gate, files, dirs, active_projects, runs,
                   ps, cb, tasks>>

\* the files a project holds before its dependencies are installed
SetupPaths == {Rel(<<"main.py">>), Rel(<<"sub", "util.py">>), Rel(<<"README.md">>)}

SetupNext ==
    \/ \E id \in ProjIds, fp \in SetupPaths, du \in RunDiskUsage :
          SaveFile(id, fp, Text("c1"), du)
    \/ \E id \in ProjIds, language \in SetupLanguages, outcome \in SetupOutcomes :
          InstallDependencies(id, language, outcome)

SetupSpec == Init /\ [][SetupNext]_vars

\* C29 (the step itself): for every primary language and every outcome of
\* the install command, _install_dependencies returns without raising, so
\* that a failure inside it cannot reach the failure handler of the run.
C29_SetupNeverRaises ==
    out.op = "_install_dependencies" => out.how = ""

(***************************************************************************)
(* Two projects side by side (IsolationSpec)                               *)
(***************************************************************************)
\* the ids the endpoints are called with: two projects, and the id "."
\* (POST /api/projects/./files), which pathlib drops from the joined path
IsolationIds == ProjIds \cup {"."}

\* <<project id, path>> of the write requests
IsolationRequests ==
    {<<"p1", Rel(<<"main.py">>)>>, <<"p2", Rel(<<"main.py">>)>>,
     <<".", Rel(<<"p2", "main.py">>)>>}

\* ample free space throughout
IsolationDiskUsage == {[ok |-> TRUE, free |-> 1000]}

IsolationNext ==
    \/ \E rq \in IsolationRequests, du \in IsolationDiskUsage :
          SaveFile(rq[1], rq[2], Text("c1"), du)
    \/ \E id \in ProjIds, pick \in 1..MaxList, o \in {"ok", "timeout"},
          du \in IsolationDiskUsage, now \in RunTimes :
          start_dojo_challenge(id, pick, o, du, now)
    \/ \E id \in ProjIds, o \in TestOutcomes, du \in IsolationDiskUsage, now \in RunTimes :
          verify_dojo_fix(id, o, du, now)
    \/ \E id \in ProjIds, du \in IsolationDiskUsage, now \in RunTimes :
          get_project(id, du, now)
    \/ \E id \in ProjIds, du \in IsolationDiskUsage, now \in RunTimes :
          create_project(id, FALSE, DojoScenario, du, now)

IsolationSpec == Init /\ [][IsolationNext]_vars

\* the files below the directory of a project: location -> content
FilesUnder(f, project_id) ==
    [l \in {x \in DOMAIN f : IsRelativeTo(x, ProjectDir(project_id))} |-> f[l]]

\* the cached entity of a project, <<>> when there is none
EntityOf(ap, project_id) ==
    IF project_id \in DOMAIN ap THEN <<ap[project_id]>> ELSE <<>>

\* C25: an operation called with one project id leaves the entity, the active
\* challenge and the files below the directory of every other project id
\* unchanged.
C25_ProjectIsolation ==
    [][ \A b \in ProjIds :
          out'.pid # b =>
              /\ EntityOf(active_projects', b) = EntityOf(active_projects, b)
              /\ challenge_get(active_challenges', b) = challenge_get(active_challenges, b)
              /\ FilesUnder(files', b) = FilesUnder(files, b) ]_vars

\* the same, for operations called with the id of a created project
C25_IsolationOfCreatedIds ==
    [][ \A b \in ProjIds :
          (out'.pid # b /\ out'.pid \in ProjIds) =>
              /\ EntityOf(active_projects', b) = EntityOf(active_projects, b)
              /\ challenge_get(active_challenges', b) = challenge_get(active_challenges, b)
              /\ FilesUnder(files', b) = FilesUnder(files, b) ]_vars

\* the snapshot file of a project
SnapshotLoc(project_id) == ProjectDir(project_id) \o <<MetadataName>>

\* two filesystems hold the same files with the same contents
SameFiles(f1, f2) ==
    /\ DOMAIN f1 = DOMAIN f2
    /\ \A l \in DOMAIN f1 : f1[l] = f2[l]

\* the same, the location loc left aside
SameFilesExcept(f1, f2, loc) ==
    /\ DOMAIN f1 \ {loc} = DOMAIN f2 \ {loc}
    /\ \A l \in DOMAIN f1 \ {loc} : f1[l] = f2[l]

\* every recorded file is a test artifact or not a source file
NoEligibleFile(p) ==
    \A i \in 1..Len(p.files) :
        LET name == p.files[i] IN
        \/ TokensOf[name[1]][1] = "test_"
        \/ LET toks == TokensOf[name[Len(name)]] IN toks[Len(toks)] \notin {".py", ".js", ".go"}

\* the logs of a project: those of the cached entity, else those of its
\* loadable snapshot, else none
LogsOf(ap, f, d, project_id) ==
    IF project_id \in DOMAIN ap THEN ap[project_id].logs
    ELSE LET sd == load_project_state(f, d, project_id) IN
         IF sd # <<>> /\ DOMAIN sd[1] # {} /\ ~from_dict_fails(sd[1])
         THEN from_dict(sd[1]).logs
         ELSE <<>>

HasLogType(p, log_type) == \E i \in 1..Len(p.logs) : p.logs[i].type = log_type

HasLogMessage(p, message) == \E i \in 1..Len(p.logs) : p.logs[i].message = message

InSeq(x, seq) == \E i \in 1..Len(seq) : seq[i] = x

\* C2: in a run whose verifier fails on the initial run and on every re-run,
\* the fix collaborator is invoked exactly twice for the file, the file is
\* logged as unresolved, and the run is not aborted: it ends COMPLETED.
C2_FixLoopBound ==
    \A id \in DOMAIN runs :
        (runs[id].ended /\ runs[id].scenario.verifier = "always_fail"
           /\ runs[id].scenario.planner = "ok" /\ runs[id].scenario.developer = "ok") =>
            /\ runs[id].invoked["fixer"] = 2
            /\ HasLogMessage(active_projects[id], "Could not fix all issues in main.py")
            /\ ~runs[id].raised
            /\ active_projects[id].status = "COMPLETED"

\* C6: with a plan of the single file main.py and a passing verifier, the run
\* generates one file, persists the test artifact test_main.py, runs the
\* verifier once and ends COMPLETED with files = [main.py, test_main.py].
C6_SingleFileScenario ==
    \A id \in DOMAIN runs :
        (runs[id].ended /\ runs[id].scenario.verifier = "pass"
           /\ runs[id].scenario.planner = "ok" /\ runs[id].scenario.developer = "ok") =>
            /\ runs[id].invoked["developer"] = 1
            /\ runs[id].invoked["verifier"] = 1
            /\ (ProjectDir(id) \o <<"test_main.py">>) \in DOMAIN files
            /\ active_projects[id].status = "COMPLETED"
            /\ active_projects[id].files = << <<"main.py">>, <<"test_main.py">> >>

\* C7: when a create_project run has ended, the project is COMPLETED and the
\* entity was returned, or it is FAILED and the exception was re-raised.
C7_RunEndsTerminal ==
    \A id \in DOMAIN runs :
        runs[id].ended =>
            \/ active_projects[id].status = "COMPLETED" /\ runs[id].returned = "entity"
            \/ active_projects[id].status = "FAILED" /\ runs[id].raised

\* C8: when the planning collaborator times out, the run ends FAILED with an
\* error entry that names the timeout, and no file is added to the file list.
C8_PlanningTimeout ==
    \A id \in DOMAIN runs :
        (runs[id].ended /\ runs[id].scenario.planner = "timeout") =>
            /\ active_projects[id].status = "FAILED"
            /\ InSeq("Planning stage timed out", active_projects[id].errors)
            /\ active_projects[id].files = <<>>

\* C9: an exception that escapes a stage (a planning timeout, an error raised
\* by the generation collaborator) moves the project to FAILED, records the
\* error text, logs the failure and is re-raised; a FAILED project always has
\* a non-empty error list.
C9_FailureHandling ==
    /\ \A id \in DOMAIN active_projects :
          active_projects[id].status = "FAILED" => active_projects[id].errors # <<>>
    /\ \A id \in DOMAIN runs :
          (runs[id].ended /\ (runs[id].scenario.planner = "timeout"
                               \/ runs[id].scenario.developer = "error")) =>
              /\ active_projects[id].status = "FAILED"
              /\ active_projects[id].errors # <<>>
              /\ HasLogType(active_projects[id], "error")
              /\ runs[id].raised

\* C26: when the planning collaborator returns a structurally invalid result
\* or raises an error other than a timeout, the run uses the fallback plan
\* (main.py, README.md) and goes on to CODING and beyond instead of FAILED.
C26_PlanningFallback ==
    \A id \in DOMAIN runs :
        (runs[id].ended /\ runs[id].scenario.planner \in {"invalid", "error"}) =>
            /\ runs[id].invoked["planner"] = 1
            /\ ~runs[id].raised
            /\ active_projects[id].status \in {"CODING", "TESTING", "COMPLETED"}
            /\ Len(active_projects[id].files) >= 2
            /\ SubSeq(active_projects[id].files, 1, 2) = << <<"main.py">>, <<"README.md">> >>

\* C27: when the generation of the first of two planned files times out, the
\* failure is logged, the file is not recorded, the second file is still
\* generated, and the file list is the plan-order list of the generated paths.
C27_CodingNonFatal ==
    \A id \in DOMAIN runs :
        (runs[id].ended /\ runs[id].scenario.developer = "timeout_on_first"
           /\ runs[id].scenario.plan = "util_py_then_main_py") =>
            /\ runs[id].invoked["developer"] = 2
            /\ InSeq("Timeout generating util.py", active_projects[id].errors)
            /\ active_projects[id].status # "FAILED"
            /\ active_projects[id].files # <<>>
            /\ active_projects[id].files[1] = <<"main.py">>
            /\ ~InSeq(<<"util.py">>, active_projects[id].files)

\* C28: for a file whose first version the enforcer reports as non-compliant
\* the generation collaborator is invoked exactly twice and the enforcer
\* once; for a compliant file it is invoked exactly once.
C28_EnforcementRewrite ==
    \A id \in DOMAIN runs :
        (runs[id].ended /\ runs[id].scenario.plan = "single_main_py"
           /\ runs[id].scenario.planner = "ok" /\ runs[id].scenario.developer = "ok") =>
            /\ runs[id].invoked["enforcer"] = 1
            /\ runs[id].invoked["developer"] =
                  IF runs[id].scenario.enforcer = "non_compliant" THEN 2 ELSE 1
            /\ (ProjectDir(id) \o <<"main.py">>) \in DOMAIN files

\* C31: when the first verifier run passes the fixer is never invoked and the
\* verifier runs once; when the verifier fails and the fix attempt times out,
\* a warning is logged, the fixer is not invoked again, and the run goes on
\* to COMPLETED.
C31_FixLoopEarlyExit ==
    \A id \in DOMAIN runs :
        (runs[id].ended /\ runs[id].scenario.plan = "single_main_py"
           /\ runs[id].scenario.planner = "ok" /\ runs[id].scenario.developer = "ok") =>
            /\ runs[id].scenario.verifier = "pass" =>
                  /\ runs[id].invoked["fixer"] = 0
                  /\ runs[id].invoked["verifier"] = 1
            /\ (runs[id].scenario.verifier = "always_fail"
                  /\ runs[id].scenario.fixer = "timeout") =>
                  /\ runs[id].invoked["fixer"] = 1
                  /\ runs[id].invoked["verifier"] = 1
                  /\ HasLogMessage(active_projects[id],
                                   "Timeout trying to fix main.py. Skipping fix.")
                  /\ active_projects[id].status = "COMPLETED"
                  /\ ~runs[id].raised

\* C32: no outcome of testing a single file (a failing verifier, a verifier
\* timeout, a fix timeout) moves the project to FAILED: the run returns and
\* the project reaches COMPLETED.
C32_TestingNonFatal ==
    \A id \in DOMAIN runs :
        (runs[id].ended /\ runs[id].scenario.plan = "single_main_py"
           /\ runs[id].scenario.planner = "ok" /\ runs[id].scenario.developer = "ok"
           /\ (runs[id].scenario.verifier \in {"always_fail", "timeout"}
                \/ runs[id].scenario.fixer = "timeout")) =>
            /\ runs[id].invoked["verifier"] >= 1
            /\ ~runs[id].raised
            /\ active_projects[id].status = "COMPLETED"

\* what get_project_state returns for a project id in the current state
\* (<<>> when there is nothing to return)
Observable(project_id) ==
    get_project_state(active_projects, files, dirs, project_id,
                      [ok |-> TRUE, free |-> 1000], 1).state

NotShortened(a, b) ==
    /\ Len(b[1].errors) >= Len(a[1].errors)
    /\ Len(b[1].logs) >= Len(a[1].logs)

\* C34: in every step, for every project id: a status that get_project_state
\* shows as COMPLETED or FAILED is shown unchanged after the step, and the
\* error and log lists it shows are not shorter after the step.
C34_TerminalAbsorbing ==
    [][\A id \in RunIds :
          (Observable(id) # <<>> /\ Observable(id)' # <<>>) =>
              /\ Observable(id)[1].status \in {"COMPLETED", "FAILED"} =>
                    Observable(id)'[1].status = Observable(id)[1].status
              /\ NotShortened(Observable(id), Observable(id)')]_vars

\* the same for the steps in which the process is restarted
LogsSurviveRestart ==
    [][(active_projects # EmptyMap /\ active_projects' = EmptyMap) =>
          \A id \in RunIds :
              (Observable(id) # <<>> /\ Observable(id)' # <<>>) =>
                  NotShortened(Observable(id), Observable(id)')]_vars

\* C36: every path in the file list of a project that the orchestrator holds
\* names a file that is in the project's directory of the store.
C36_RecordedFilesPersisted ==
    \A id \in DOMAIN active_projects :
        \A i \in 1..Len(active_projects[id].files) :
            (ProjectDir(id) \o active_projects[id].files[i]) \in DOMAIN files

\* in a run: when the plan declares a dependency and the environment setup
\* fails, the failure does not move the project to FAILED and the run goes on
\* to TESTING and beyond
SetupBestEffortInRun ==
    \A id \in DOMAIN runs :
        (runs[id].ended /\ runs[id].scenario.plan = "main_py_with_dependency"
           /\ runs[id].scenario.setup = "fails") =>
            /\ ~runs[id].raised
            /\ active_projects[id].status \in {"TESTING", "COMPLETED"}

(***************************************************************************)
(* C5: recovery                                                            *)
(***************************************************************************)
\* C5: after get_project_state has reconstructed a project from a directory
\* with N non-hidden files and no loadable snapshot, a second call (in the
\* same process, or after a restart emptied the cache) yields the same file
\* list, and both lists have length N.
C5_RecoveryIdempotence ==
    (out.op = "get_project_state" /\ out.how = "recovered") =>
        \A du \in RunDiskUsage, now \in RunTimes :
            LET again == get_project_state(active_projects, files, dirs, out.pid, du, now) IN
            /\ again.state # <<>>
            /\ again.state[1].files = out.state[1].files
            /\ Len(out.state[1].files) = out.n
            /\ Len(again.state[1].files) = out.n

\* the part of C5 that the code keeps: the two file lists are identical
C5_SameFileLists ==
    (out.op = "get_project_state" /\ out.how = "recovered") =>
        \A du \in RunDiskUsage, now \in RunTimes :
            LET again == get_project_state(active_projects, files, dirs, out.pid, du, now) IN
            /\ again.state # <<>>
            /\ again.state[1].files = out.state[1].files

\* the snapshot of a project can be loaded and rehydrated
LoadableSnapshot(f, d, project_id) ==
    LET sd == load_project_state(f, d, project_id) IN
    sd # <<>> /\ DOMAIN sd[1] # {} /\ ~from_dict_fails(sd[1])

\* C19: get_project_state returns the cached entity if there is one;
\* otherwise the entity rehydrated from a loadable snapshot; otherwise, if the
\* project directory exists, a reconstructed entity with status COMPLETED
\* whose file list is the directory listing without the snapshot file, and
\* which is persisted and cached; otherwise nothing.
C19_LookupOrder ==
    [][ \A id \in RunIds, du \in RunDiskUsage, now \in RunTimes :
          get_project(id, du, now) =>
            IF id \in DOMAIN active_projects
            THEN /\ out'.how = "cache"
                 /\ out'.state = <<active_projects[id]>>
            ELSE IF LoadableSnapshot(files, dirs, id)
            THEN /\ out'.how = "snapshot"
                 /\ out'.state = <<from_dict(load_project_state(files, dirs, id)[1])>>
                 /\ active_projects'[id] = out'.state[1]
            ELSE IF ProjectDir(id) \in dirs
            THEN /\ out'.how = "recovered"
                 /\ out'.state # <<>>
                 /\ out'.state[1].status = "COMPLETED"
                 /\ out'.state[1].files =
                       SelectSeq(get_project_files(files, dirs, id),
                                 LAMBDA r : r # <<MetadataName>>)
                 /\ load_project_state(files', dirs', id) = <<to_dict(out'.state[1])>>
                 /\ active_projects'[id] = out'.state[1]
            ELSE /\ out'.how = "absent"
                 /\ out'.state = <<>> ]_vars

\* the part of C19 that the code keeps: the order of resolution
C19_ResolutionOrder ==
    [][ \A id \in RunIds, du \in RunDiskUsage, now \in RunTimes :
          get_project(id, du, now) =>
            out'.how = IF id \in DOMAIN active_projects THEN "cache"
                       ELSE IF LoadableSnapshot(files, dirs, id) THEN "snapshot"
                       ELSE IF ProjectDir(id) \in dirs THEN "recovered"
                       ELSE "absent" ]_vars

(***************************************************************************)
(* The project entity on its own (EntitySpec)                              *)
(***************************************************************************)
EntityPaths == {<<"main.py">>, <<"sub", "util.py">>}

EntityInit ==
    /\ active_challenges = EmptyMap
    /\ handles = NoHandles
    /\ gate = NewGate
    /\ bgtask = EmptyMap
    /\ files = (<<"etc", "passwd">> :> Text("secret"))
    /\ dirs = {<<>>, <<"ws">>, <<"etc">>, <<"ws", "p1">>}
    /\ active_projects = EmptyMap
    /\ runs = EmptyMap
    /\ out = NoOut
    /\ \E ts \in {<<>>, <<"go">>} : ps = NewProjectState("p1", "name", "goal", ts, 1)
    /\ cb = FALSE
    /\ tasks = <<>>

UpdateStatus(status, now) ==
    /\ ps' = update_status(ps, status, now)
    /\ UNCHANGED <<bgtask, active_challenges, handles, gate, files, dirs, active_projects, runs, out, cb, tasks>>

AddFile(file_path) ==
    /\ Len(ps.files) < MaxList
    /\ ps' = add_file(ps, file_path)
    /\ UNCHANGED <<bgtask, active_challenges, handles, gate, files, dirs, active_projects, runs, out, cb, tasks>>

AddError(error) ==
    /\ Len(ps.errors) < MaxList
    /\ ps' = add_error(ps, error)
    /\ UNCHANGED <<bgtask, active_challenges, handles, gate, files, dirs, active_projects, runs, out, cb, tasks>>

AddLog(log_type, message, data, now) ==
    /\ Len(ps.logs) < MaxLogs
    /\ ps' = add_log(ps, log_type, message, data, now)
    /\ UNCHANGED <<bgtask, active_challenges, handles, gate, files, dirs, active_projects, runs, out, cb, tasks>>

\* create_project lines 48-51: the metadata mapping is assigned
SetMetadata(style_guide) ==
    /\ ps.metadata = {}
    /\ ps' = [ps EXCEPT !.metadata = {<<"style_guide", style_guide>>,
                                       <<"spec_constraints", None>>}]
    /\ UNCHANGED <<bgtask, active_challenges, handles, gate, files, dirs, active_projects, runs, out, cb, tasks>>

EntityNext ==
    \/ \E st \in DOMAIN ProjectStatus, now \in Times : UpdateStatus(st, now)
    \/ \E fp \in EntityPaths : AddFile(fp)
    \/ AddError("Timeout generating main.py")
    \/ \E now \in Times : AddLog("progress", "Creating project plan...", {}, now)
    \/ \E sg \in {None, "pep8"} : SetMetadata(sg)

EntitySpec == EntityInit /\ [][EntityNext]_vars

\* C4: for every entity built by update_status, add_file, add_error and
\* add_log, from_dict(to_dict(p)) succeeds and has the same files, errors,
\* logs, status and metadata as p.
C4_SnapshotRoundTrip ==
    /\ ~from_dict_fails(to_dict(ps))
    /\ LET q == from_dict(to_dict(ps)) IN
         /\ q.files = ps.files
         /\ q.errors = ps.errors
         /\ q.logs = ps.logs
         /\ q.status = ps.status
         /\ q.metadata = ps.metadata

\* an entity with files, errors, logs, metadata and a status other than PENDING
C4_Witness ==
    /\ Len(ps.files) = 2
    /\ ps.errors # <<>>
    /\ ps.logs # <<>>
    /\ ps.metadata # {}
    /\ ps.status = "DOJO"
    /\ ps.tech_stack = <<"go">>

\* status values found in a snapshot: the entity's own, one that no member
\* has, and a member name in place of its value
SnapshotStatusValues(p) == {ProjectStatus[p.status], "archived", "PENDING"}

\* ProjectState.from_dict applied to the entity's snapshot with that status value
FromDict(value) ==
    /\ LET data == [to_dict(ps) EXCEPT !.status = value] IN
         out' = [NoOut EXCEPT !.op = "from_dict", !.how = value,
                              !.ok = ~from_dict_fails(data),
                              !.state = IF from_dict_fails(data) THEN <<>>
                                        ELSE <<from_dict(data)>>]
    /\ UNCHANGED <<bgtask, active_challenges, handles, gate, files, dirs, active_projects, runs,
                   ps, cb, tasks>>

\* an entity is built by its methods, then its snapshot is parsed
SnapshotNext ==
    \/ out = NoOut /\ EntityNext
    \/ out = NoOut /\ \E v \in SnapshotStatusValues(ps) : FromDict(v)

SnapshotSpec == EntityInit /\ [][SnapshotNext]_vars

\* C20: from_dict applied to a snapshot whose status value is not the value
\* of a defined status raises an error and returns no entity; a snapshot that
\* yields an entity yields it with the status whose value it holds.
C20_UnknownStatusRejected ==
    out.op = "from_dict" =>
        IF \E m \in DOMAIN ProjectStatus : ProjectStatus[m] = out.how
        THEN /\ out.ok
             /\ ProjectStatus[out.state[1].status] = out.how
        ELSE /\ ~out.ok
             /\ out.state = <<>>

\* a snapshot with files and logs and a status value that no member has was rejected
C20_Witness ==
    /\ out.op = "from_dict"
    /\ out.how = "archived"
    /\ ~out.ok
    /\ ps.files # <<>>
    /\ ps.logs # <<>>
    /\ ps.status = "COMPLETED"

\* C14: the file list of the project entity never holds the same path twice.
C14_NoDuplicateFiles ==
    \A i, j \in 1..Len(ps.files) : ps.files[i] = ps.files[j] => i = j

(***************************************************************************)
(* Progress emission (ProgressSpec): update_progress, the closure that     *)
(* create_project defines, applied to the entity and callback it captured  *)
(***************************************************************************)
ProgressEvents ==
    {<<"planning", "Creating project plan...">>, <<"coding", "Generating 1 files...">>,
     <<"testing", "Testing Python project...">>,
     <<"completed", "Project generation complete!">>}

\* update_progress: the entity after the call and the asyncio tasks it created
update_progress(project_state, websocket_callback, step, message, now) ==
    LET p1 == add_log(project_state, "progress", message, {}, now) IN
    [state |-> p1,
     created |-> IF websocket_callback
                 THEN << [kind |-> "sink", step |-> step, message |-> message,
                          snapshot |-> <<>>],
                         [kind |-> "save", step |-> step, message |-> message,
                          snapshot |-> <<to_dict(p1)>>] >>
                 ELSE <<>>]

ProgressInit ==
    /\ active_challenges = EmptyMap
    /\ handles = NoHandles
    /\ gate = NewGate
    /\ bgtask = EmptyMap
    /\ files = (<<"etc", "passwd">> :> Text("secret"))
    /\ dirs = {<<>>, <<"ws">>, <<"etc">>, <<"ws", "p1">>}
    /\ active_projects = EmptyMap
    /\ runs = EmptyMap
    /\ out = NoOut
    /\ ps = [NewProjectState("p1", "name", "goal", <<>>, 1)
               EXCEPT !.metadata = {<<"style_guide", None>>, <<"spec_constraints", None>>}]
    /\ cb \in BOOLEAN
    /\ tasks = <<>>

\* one emission
Emit(step, message, now) ==
    /\ Len(ps.logs) < MaxLogs
    /\ LET r == update_progress(ps, cb, step, message, now) IN
         /\ ps' = r.state
         /\ tasks' = tasks \o r.created
    /\ UNCHANGED <<bgtask, active_challenges, handles, gate, files, dirs, active_projects, runs, out, cb>>

\* the event loop runs the oldest pending task: a sink delivery, or the
\* snapshot write; the dictionary was built when the task was created and
\* shares the entity's lists, so the lists are read when it is written
RunTask(du) ==
    /\ tasks # <<>>
    /\ tasks' = Tail(tasks)
    /\ IF Head(tasks).kind = "save"
       THEN LET state_dict == [Head(tasks).snapshot[1] EXCEPT
                                  !.tasks = ps.tasks, !.files = ps.files,
                                  !.errors = ps.errors, !.logs = ps.logs]
            IN files' = save_project_state(files, dirs, ps.project_id, state_dict, du).files
       ELSE UNCHANGED files
    /\ UNCHANGED <<bgtask, active_challenges, handles, gate, dirs, active_projects, runs, out, ps, cb>>

ProgressNext ==
    \/ \E e \in ProgressEvents, now \in Times : Emit(e[1], e[2], now)
    \/ \E du \in RunDiskUsage : RunTask(du)

ProgressSpec == ProgressInit /\ [][ProgressNext]_vars

NumKind(ts, kind) == Len(SelectSeq(ts, LAMBDA t : t.kind = kind))

\* C10: every emission appends a log entry and triggers a snapshot write,
\* whether or not a sink is registered, and forwards the event to the sink
\* when one is registered.
C10_EmissionEffects ==
    [][ (ps'.logs # ps.logs) =>
          /\ Len(ps'.logs) = Len(ps.logs) + 1
          /\ NumKind(tasks', "save") = NumKind(tasks, "save") + 1
          /\ cb => NumKind(tasks', "sink") = NumKind(tasks, "sink") + 1 ]_vars

\* the content of the file of a project at a relative path ("" if there is none)
ContentAt(f, project_id, relpath) ==
    LET loc == ProjectDir(project_id) \o relpath IN
    IF loc \in DOMAIN f THEN f[loc] ELSE Text("")

\* texts that exist only as the result of a fault injection
InjectedTexts == {Text("bug")}

\* C38: the original content saved with an active challenge is never content
\* that a fault injection produced, and a verification that succeeds by
\* comparison with the original leaves no injected content in the target file.
C38_OriginalNotInjected ==
    /\ \A id \in DOMAIN active_challenges :
          active_challenges[id].original_code \notin InjectedTexts
    /\ (out.op = "verify_dojo_fix" /\ out.how = "restored") =>
          ContentAt(files, out.pid, out.fp.parts) \notin InjectedTexts

\* C16 as stated: when the saboteur times out, start_dojo_challenge raises,
\* the target file keeps its content, the set of active challenges is
\* unchanged and the project's logs are unchanged.
C16_SabotageTimeout_AsStated ==
    [][ \A id \in RunIds, pick \in 1..MaxList, du \in RunDiskUsage, now \in RunTimes :
          (/\ start_dojo_challenge(id, pick, "timeout", du, now)
           /\ "saboteur" \in out'.invoked) =>
              /\ out'.how = "timeout"
              /\ ~out'.ok
              /\ ContentAt(files', id, out'.fp.parts) = ContentAt(files, id, out'.fp.parts)
              /\ active_challenges' = active_challenges
              /\ LogsOf(active_projects', files', dirs', id)
                   = LogsOf(active_projects, files, dirs, id) ]_vars

\* C16 (amended): when the saboteur times out, start_dojo_challenge raises,
\* no file other than the project's snapshot changes, the set of active
\* challenges is unchanged, and the project's logs are unchanged except that
\* a project the lookup had to reconstruct carries its one recovery entry.
C16_SabotageTimeout ==
    [][ \A id \in RunIds, pick \in 1..MaxList, du \in RunDiskUsage, now \in RunTimes :
          (/\ start_dojo_challenge(id, pick, "timeout", du, now)
           /\ "saboteur" \in out'.invoked) =>
              /\ out'.how = "timeout"
              /\ ~out'.ok
              /\ SameFilesExcept(files', files, SnapshotLoc(id))
              /\ active_challenges' = active_challenges
              /\ LET before == LogsOf(active_projects, files, dirs, id)
                     after == LogsOf(active_projects', files', dirs', id)
                 IN \/ after = before
                    \/ /\ id \notin DOMAIN active_projects
                       /\ before = <<>>
                       /\ Len(after) = 1
                       /\ after[1].type = "recovery" ]_vars

\* the saboteur timed out on main.py while an earlier challenge on it was
\* active: the sabotaged file, the challenge and the log of its start remain
C16_Witness ==
    /\ out.op = "start_dojo_challenge"
    /\ out.how = "timeout"
    /\ out.fp = Rel(<<"main.py">>)
    /\ out.pid \in DOMAIN active_challenges
    /\ active_challenges[out.pid].original_code = Text("c1")
    /\ ContentAt(files, out.pid, <<"main.py">>) = Text("bug")
    /\ HasLogType(active_projects[out.pid], "dojo_challenge")

\* C17: verify_dojo_fix removes the active challenge if and only if it
\* returns success, and it succeeds exactly when the current content equals
\* the saved original after trimming whitespace or else the test run passes;
\* a failure carries the diagnostic of the test run and leaves the set of
\* active challenges as it was.
C17_VerifyClearsOnSuccessOnly ==
    [][ \A id \in RunIds, o \in TestOutcomes, du \in RunDiskUsage, now \in RunTimes :
          (/\ verify_dojo_fix(id, o, du, now)
           /\ id \in DOMAIN active_challenges) =>
              LET ch == active_challenges[id]
                  restored == str_strip(ContentAt(files, id, ch.file))
                                = str_strip(ch.original_code)
              IN /\ out'.ok <=> (id \notin DOMAIN active_challenges')
                 /\ out'.ok <=> (restored \/ o = "pass")
                 /\ restored => out'.invoked = {}
                 /\ ~restored => out'.invoked = {"tester"}
                 /\ ~out'.ok => /\ out'.how = run_test_file(o).error
                                /\ active_challenges' = active_challenges ]_vars

\* a verification failed on the still sabotaged file: the tests were run and
\* the challenge is still recorded with the original content
C17_Witness ==
    /\ out.op = "verify_dojo_fix"
    /\ ~out.ok
    /\ out.invoked = {"tester"}
    /\ out.pid \in DOMAIN active_challenges
    /\ active_challenges[out.pid].original_code = Text("c1 ")
    /\ ContentAt(files, out.pid, active_challenges[out.pid].file) = Text("bug")

\* C18 as stated: verify_dojo_fix on a project without a recorded challenge
\* fails with the no-active-challenge error, runs no verifier, and changes
\* neither any file nor the set of active challenges.
C18_NoActiveChallenge_AsStated ==
    [][ \A id \in RunIds, o \in TestOutcomes, du \in RunDiskUsage, now \in RunTimes :
          (/\ verify_dojo_fix(id, o, du, now)
           /\ id \notin DOMAIN active_challenges) =>
              /\ out'.how = "no_active_challenge"
              /\ ~out'.ok
              /\ out'.invoked = {}
              /\ SameFiles(files', files)
              /\ active_challenges' = active_challenges ]_vars

\* C18 (amended): verify_dojo_fix on a project without a recorded challenge
\* fails with the no-active-challenge error, runs no verifier, leaves the set
\* of active challenges as it was, and changes no file other than the
\* project's snapshot, which the lookup writes when it reconstructs the project.
C18_NoActiveChallenge ==
    [][ \A id \in RunIds, o \in TestOutcomes, du \in RunDiskUsage, now \in RunTimes :
          (/\ verify_dojo_fix(id, o, du, now)
           /\ id \notin DOMAIN active_challenges) =>
              /\ out'.how = "no_active_challenge"
              /\ ~out'.ok
              /\ out'.invoked = {}
              /\ SameFilesExcept(files', files, SnapshotLoc(id))
              /\ dirs' = dirs
              /\ active_challenges' = active_challenges ]_vars

\* a verification was refused for lack of a challenge on a project whose
\* source file is still the sabotaged one (the challenge was cleared by a
\* passing test run, or lost in a restart)
C18_Witness ==
    /\ out.op = "verify_dojo_fix"
    /\ out.how = "no_active_challenge"
    /\ out.pid \notin DOMAIN active_challenges
    /\ ContentAt(files, out.pid, <<"main.py">>) = Text("bug")
    /\ out.pid \in DOMAIN active_projects
    /\ HasLogType(active_projects[out.pid], "dojo_challenge")

(***************************************************************************)
(* Writes and reads as the event loop interleaves them (WriteSpec):        *)
(* save_file and save_project_state open the target with mode "w", await   *)
(* the write and close the file when the async-with block is left          *)
(***************************************************************************)
\* how many files may be open for writing at once
MaxOpen == 2

\* text larger than the write buffer reaches the file in two parts
FirstPart == ("big" :> "big[:8192]")

WriteContents == {Text("c1"), Text("big")}

WritePaths == {Rel(<<"main.py">>)}

WriteIds == {"p1"}

\* aiofiles.open(path, "w") on filesystem (f, d): the file exists and is empty
open_w(f, loc) == (loc :> Text("")) @@ f

\* f.write(content): what the file holds once the call has returned
write_buffered(f, loc, content) ==
    IF content.text \in DOMAIN FirstPart
    THEN (loc :> Text(FirstPart[content.text])) @@ f
    ELSE f

\* leaving the async-with block closes the file: all of the content is in it
close_w(f, loc, content) == (loc :> content) @@ f

\* save_file up to and including aiofiles.open (lines 80-91)
BeginSaveFile(project_id, file_path, content, du) ==
    LET r == save_file(files, dirs, project_id, file_path, content, du)
        loc == Canonical(get_safe_path(project_id, file_path).path)
    IN /\ Len(handles) < MaxOpen
       /\ dirs' = r.dirs
       /\ IF r.ok
          THEN /\ files' = open_w(files, loc)
               /\ handles' = Append(handles, [op |-> "save_file", pid |-> project_id,
                                              fp |-> file_path, loc |-> loc,
                                              content |-> content, pc |-> "opened"])
               /\ UNCHANGED out
          ELSE /\ out' = [NoOut EXCEPT !.op = "save_file", !.pid = project_id,
                                       !.fp = file_path, !.touched = r.touched]
               /\ UNCHANGED <<bgtask, files, handles>>
       /\ UNCHANGED <<bgtask, active_challenges, gate, active_projects, runs, ps, cb, tasks>>

\* save_project_state up to and including aiofiles.open (lines 134-143)
BeginSaveProjectState(project_id, state_dict, du) ==
    LET r == save_project_state(files, dirs, project_id, state_dict, du)
        loc == Canonical(get_safe_path(project_id, Rel(<<MetadataName>>)).path)
    IN /\ Len(handles) < MaxOpen
       /\ IF r.ok
          THEN /\ files' = open_w(files, loc)
               /\ handles' = Append(handles, [op |-> "save_project_state", pid |-> project_id,
                                              fp |-> Rel(<<MetadataName>>), loc |-> loc,
                                              content |-> json_dumps(state_dict),
                                              pc |-> "opened"])
               /\ UNCHANGED out
          ELSE /\ out' = [NoOut EXCEPT !.op = "save_project_state", !.pid = project_id,
                                       !.fp = Rel(<<MetadataName>>)]
               /\ UNCHANGED <<bgtask, files, handles>>
       /\ UNCHANGED <<bgtask, active_challenges, gate, dirs, active_projects, runs, ps, cb, tasks>>

\* await f.write(content) of the i-th open file (lines 92 and 144)
WriteContent(i) ==
    /\ i \in 1..Len(handles)
    /\ handles[i].pc = "opened"
    /\ files' = write_buffered(files, handles[i].loc, handles[i].content)
    /\ handles' = [handles EXCEPT ![i].pc = "written"]
    /\ UNCHANGED <<bgtask, active_challenges, gate, dirs, active_projects, runs, out, ps, cb, tasks>>

\* the async-with block of the i-th open file is left, and the call returns True
CloseWrite(i) ==
    /\ i \in 1..Len(handles)
    /\ handles[i].pc = "written"
    /\ files' = close_w(files, handles[i].loc, handles[i].content)
    /\ handles' = SubSeq(handles, 1, i - 1) \o SubSeq(handles, i + 1, Len(handles))
    /\ out' = [NoOut EXCEPT !.op = handles[i].op, !.pid = handles[i].pid,
                            !.fp = handles[i].fp, !.ok = TRUE,
                            !.touched = {handles[i].loc}]
    /\ UNCHANGED <<bgtask, active_challenges, gate, dirs, active_projects, runs, ps, cb, tasks>>

WriteNext ==
    \/ \E id \in WriteIds, fp \in WritePaths, c \in WriteContents, du \in RunDiskUsage :
          BeginSaveFile(id, fp, c, du)
    \/ \E id \in WriteIds, du \in RunDiskUsage :
          BeginSaveProjectState(id, SnapshotInput(id), du)
    \/ \E i \in 1..MaxOpen : WriteContent(i)
    \/ \E i \in 1..MaxOpen : CloseWrite(i)
    \/ \E id \in WriteIds, fp \in WritePaths : ReadFile(id, fp)
    \/ \E id \in WriteIds : LoadProjectState(id)

WriteSpec == Init /\ [][WriteNext]_vars

\* C11: a read_file that finds the file returns one of the complete contents
\* that were written to it, never an empty or partial one, and a
\* load_project_state of an existing snapshot file returns the snapshot.
C11_AtomicVisibility ==
    /\ (out.op = "read_file" /\ out.touched # {}) => out.content \in WriteContents
    /\ (out.op = "load_project_state"
          /\ (ProjectDir(out.pid) \o <<MetadataName>>) \in DOMAIN files) =>
            out.state = <<SnapshotInput(out.pid)>>

(***************************************************************************)
(* The snapshot writes of update_progress as the event loop runs them      *)
(* (FlushSpec): each write is a task of its own, and its open, write and   *)
(* close are separate awaits that interleave with the other tasks          *)
(***************************************************************************)
FlushDiskUsage == {[ok |-> TRUE, free |-> 1000]}

\* the event loop starts the oldest pending task: a sink delivery, or
\* save_project_state up to and including aiofiles.open (lines 134-143)
BeginTask(du) ==
    /\ tasks # <<>>
    /\ tasks' = Tail(tasks)
    /\ IF Head(tasks).kind = "save"
       THEN LET state_dict == Head(tasks).snapshot[1]
                r == save_project_state(files, dirs, ps.project_id, state_dict, du)
                loc == Canonical(get_safe_path(ps.project_id, Rel(<<MetadataName>>)).path)
            IN /\ Len(handles) < MaxOpen
               /\ IF r.ok
                  THEN /\ files' = open_w(files, loc)
                       /\ handles' = Append(handles,
                              [op |-> "save_project_state", pid |-> ps.project_id,
                               fp |-> Rel(<<MetadataName>>), loc |-> loc,
                               content |-> Text(""), snapshot |-> state_dict,
                               pc |-> "opened"])
                  ELSE UNCHANGED <<files, handles>>
       ELSE UNCHANGED <<files, handles>>
    /\ UNCHANGED <<bgtask, active_challenges, gate, dirs, active_projects, runs, out, ps, cb>>

\* `await f.write(json.dumps(state_dict, indent=2))` of the i-th open snapshot
\* (line 144): the dictionary is serialised now; it was built when the task
\* was created and shares the entity's lists
SerializeAndWrite(i) ==
    /\ i \in 1..Len(handles)
    /\ handles[i].pc = "opened"
    /\ LET state_dict == [handles[i].snapshot EXCEPT
                             !.tasks = ps.tasks, !.files = ps.files,
                             !.errors = ps.errors, !.logs = ps.logs]
           content == json_dumps(state_dict)
       IN /\ files' = write_buffered(files, handles[i].loc, content)
          /\ handles' = [handles EXCEPT ![i].content = content, ![i].pc = "written"]
    /\ UNCHANGED <<bgtask, active_challenges, gate, dirs, active_projects, runs, out, ps, cb,
                   tasks>>

FlushNext ==
    \/ \E e \in ProgressEvents, now \in Times : Emit(e[1], e[2], now)
    \/ \E du \in FlushDiskUsage : BeginTask(du)
    \/ \E i \in 1..MaxOpen : SerializeAndWrite(i)
    \/ \E i \in 1..MaxOpen : CloseWrite(i)

FlushSpec == ProgressInit /\ [][FlushNext]_vars

\* the snapshot of the entity's project that a load would return now
OnDisk == load_project_state(files, dirs, ps.project_id)

StatusRank ==
    ("pending" :> 0) @@ ("planning" :> 1) @@ ("coding" :> 2) @@ ("testing" :> 3) @@
    ("analyzing" :> 3) @@ ("dojo_mode" :> 3) @@ ("completed" :> 4) @@ ("failed" :> 4)

\* snapshot b holds no earlier status and no shorter list than snapshot a
NotEarlier(a, b) ==
    /\ StatusRank[b.status] >= StatusRank[a.status]
    /\ Len(b.files) >= Len(a.files)
    /\ Len(b.errors) >= Len(a.errors)
    /\ Len(b.logs) >= Len(a.logs)

\* in every step that replaces one loadable snapshot by another, the new one
\* is not earlier than the old one
SnapshotNeverRegresses ==
    [][(OnDisk # <<>> /\ OnDisk' # <<>>) => NotEarlier(OnDisk[1], OnDisk'[1])]_vars

\* C35: under any interleaving of the snapshot writes of one project the
\* snapshot on disk never regresses, and once no write is pending or in
\* progress the snapshot on disk is the entity's current state.
C35_SnapshotMonotonic ==
    /\ SnapshotNeverRegresses
    /\ []((tasks = <<>> /\ handles = <<>> /\ ps.logs # <<>>) => OnDisk = <<to_dict(ps)>>)

(***************************************************************************)
(* Requests to the generation provider (GateSpec): GroqClient.generate as  *)
(* the agents call it, each through the client instance it holds           *)
(***************************************************************************)
\* how many requests may be in progress at once
MaxCalls == 4

RECURSIVE SumOver(_, _)
SumOver(f, S) ==
    IF S = {} THEN 0
    ELSE LET x == CHOOSE y \in S : TRUE IN f[x] + SumOver(f, S \ {x})

\* requests that hold a slot of some semaphore: calls to the provider in flight
InFlight(g) == SumOver(g.calls, {k \in CallKinds : k[2] = "inside"})

InFlightOf(g, client) ==
    SumOver(g.calls, {k \in CallKinds : k[2] = "inside" /\ ClientOf[k[1]] = client})

\* an agent calls generate (lines 55-83): the request reaches the semaphore
Generate(agent) ==
    /\ SumOver(gate.calls, CallKinds) < MaxCalls
    /\ gate' = [gate EXCEPT !.calls[<<agent, "waiting", 0>>] = @ + 1]
    /\ UNCHANGED <<bgtask, files, dirs, active_projects, runs, out, ps, cb, tasks,
                   active_challenges, handles>>

\* a semaphore that admits a request whether or not a slot is free
semaphore_acquire_unbounded(g, agent, attempt) ==
    [ok |-> TRUE,
     gate |-> [g EXCEPT !.sem[ClientOf[agent]] = @ - 1,
                        !.calls[<<agent, "waiting", attempt>>] = @ - 1,
                        !.calls[<<agent, "inside", attempt>>] = @ + 1]]

\* `async with self._semaphore` entered (line 85): a slot of the agent's own
\* client is taken if one is free, otherwise the request keeps waiting
semaphore_acquire(g, agent, attempt) ==
    IF g.sem[ClientOf[agent]] > 0
    THEN [ok |-> TRUE,
          gate |-> [g EXCEPT !.sem[ClientOf[agent]] = @ - 1,
                             !.calls[<<agent, "waiting", attempt>>] = @ - 1,
                             !.calls[<<agent, "inside", attempt>>] = @ + 1]]
    ELSE [ok |-> FALSE, gate |-> g]

Acquire(agent, attempt) ==
    /\ gate.calls[<<agent, "waiting", attempt>>] > 0
    /\ LET r == semaphore_acquire(gate, agent, attempt) IN
         /\ r.ok
         /\ gate' = r.gate
    /\ UNCHANGED <<bgtask, files, dirs, active_projects, runs, out, ps, cb, tasks,
                   active_challenges, handles>>

\* a block that gives the slot back only when the call returned
semaphore_release_on_return(g, agent, attempt, outcome) ==
    IF outcome = "ok"
    THEN [g EXCEPT !.sem[ClientOf[agent]] = @ + 1,
                   !.calls[<<agent, "inside", attempt>>] = @ - 1]
    ELSE [g EXCEPT !.calls[<<agent, "inside", attempt>>] = @ - 1]

\* leaving `async with self._semaphore` (lines 85-90), by return or by raise:
\* the slot is given back and the request is no longer inside
semaphore_release(g, agent, attempt, outcome) ==
    [g EXCEPT !.sem[ClientOf[agent]] = @ + 1,
              !.calls[<<agent, "inside", attempt>>] = @ - 1]

\* _create_completion returns or raises and the async-with block is left
\* (lines 86-106): the slot is released; a rate-limit error before the last
\* attempt sends the request back to the semaphore after a sleep, every
\* other outcome ends the request
Complete(agent, attempt, outcome) ==
    /\ gate.calls[<<agent, "inside", attempt>>] > 0
    /\ LET released == semaphore_release(gate, agent, attempt, outcome)
       IN gate' = IF outcome = "rate limit" /\ attempt < MaxRetries - 1
                  THEN [released EXCEPT !.calls[<<agent, "waiting", attempt + 1>>] = @ + 1]
                  ELSE released
    /\ UNCHANGED <<bgtask, files, dirs, active_projects, runs, out, ps, cb, tasks,
                   active_challenges, handles>>

GateNext ==
    \/ \E a \in GateCallers : Generate(a)
    \/ \E a \in GateCallers, n \in 0..(MaxRetries - 1) : Acquire(a, n)
    \/ \E a \in GateCallers, n \in 0..(MaxRetries - 1),
          o \in {"ok", "rate limit", "error"} : Complete(a, n, o)

GateSpec == Init /\ [][GateNext]_vars

\* C12: at every moment the number of calls to the provider in flight, summed
\* over all agents, is at most the size of the gate.
C12_GlobalGate == InFlight(gate) <= MaxConcurrent

\* what the code keeps: each client instance admits at most MaxConcurrent of
\* its own requests, and its semaphore counts the free slots
C12_PerClientGate ==
    \A c \in GroqClients :
        /\ InFlightOf(gate, c) <= MaxConcurrent
        /\ gate.sem[c] = MaxConcurrent - InFlightOf(gate, c)

(***************************************************************************)
(* The retry wrapper (TaskSpec): main.py create_project_task, the          *)
(* background task that POST /api/projects starts for a new project id.    *)
(* What the awaited orchestrator call does (returns or raises) is the      *)
(* input of each attempt.                                                  *)
(***************************************************************************)
\* max_retries (main.py line 86)
max_retries == 3

TaskIds == {"p1", "p2"}
TaskDiskUsage == {[ok |-> TRUE, free |-> 1000]}

\* a wrapper that goes on to another attempt after every failure
retry_always(attempt) == TRUE

\* `if attempt < max_retries - 1` (line 106): a failed attempt is followed by
\* a warning, a sleep and the next iteration; otherwise by the final error
retry_after_failure(attempt) == attempt < max_retries - 1

\* send_websocket_message (lines 60-73): the message goes to every connection
\* registered for the project id, and nowhere when there is none
send_websocket_message(t, message_type) ==
    [t EXCEPT !.sent = Append(@, message_type),
              !.delivered = IF t.connections > 0 THEN Append(@, message_type) ELSE @]

\* POST /api/projects (lines 169-184): the task is added for a fresh id;
\* connections is the number of WebSocket clients that listen for the id
StartTask(project_id, connections) ==
    /\ project_id \notin DOMAIN bgtask
    /\ bgtask' = (project_id :> [attempt |-> 0, pc |-> "loop", calls |-> 0, failed |-> 0,
                                 sent |-> <<>>, delivered |-> <<>>,
                                 connections |-> connections]) @@ bgtask
    /\ UNCHANGED <<active_challenges, handles, gate, files, dirs, active_projects, runs,
                   out, ps, cb, tasks>>

\* one iteration of `for attempt in range(max_retries)` (lines 88-120): the
\* orchestrator is awaited; its return ends the loop, its raise is followed by
\* a warning and a sleep, or on the last attempt by the error message and the
\* re-raise
Attempt(project_id, outcome, du, now) ==
    /\ project_id \in DOMAIN bgtask
    /\ bgtask[project_id].pc = "loop"
    /\ bgtask[project_id].attempt < max_retries
    /\ LET r == create_project_call(active_projects, files, dirs, runs, project_id,
                                    TRUE, DojoScenario, du, now)
       IN /\ active_projects' = r.ap
          /\ files' = r.files
          /\ runs' = r.runs
          /\ out' = r.out
    /\ UNCHANGED <<active_challenges, handles, gate, dirs, ps, cb, tasks>>
    /\ LET t == [bgtask[project_id] EXCEPT !.calls = @ + 1] IN
       bgtask' = [bgtask EXCEPT ![project_id] =
          IF outcome = "returns" THEN [t EXCEPT !.pc = "done"]
          ELSE IF retry_after_failure(t.attempt)
               THEN [send_websocket_message(t, "warning")
                       EXCEPT !.pc = "sleeping", !.failed = @ + 1]
               ELSE [send_websocket_message(t, "error")
                       EXCEPT !.pc = "raised", !.failed = @ + 1]]

\* asyncio.sleep(2) is over (line 113): the loop goes to its next iteration,
\* and ends without a re-raise when range(max_retries) is used up
Wake(project_id) ==
    /\ project_id \in DOMAIN bgtask
    /\ bgtask[project_id].pc = "sleeping"
    /\ bgtask' = [bgtask EXCEPT ![project_id] =
          [@ EXCEPT !.attempt = @ + 1,
                    !.pc = IF bgtask[project_id].attempt + 1 < max_retries
                           THEN "loop" ELSE "done"]]
    /\ UNCHANGED <<active_challenges, handles, gate, files, dirs, active_projects, runs,
                   out, ps, cb, tasks>>

TaskNext ==
    \/ \E id \in TaskIds, n \in 0..1 : StartTask(id, n)
    \/ \E id \in TaskIds, o \in {"returns", "raises"}, du \in TaskDiskUsage, now \in RunTimes :
          Attempt(id, o, du, now)
    \/ \E id \in TaskIds : Wake(id)

TaskSpec == Init /\ [][TaskNext]_vars

CountOf(x, seq) == Cardinality({i \in 1..Len(seq) : seq[i] = x})

\* C33: create_project_task invokes the orchestrator at most 3 times for one
\* project id; after the first attempt that succeeds it makes no further
\* attempt and sends nothing more; after a third failed attempt it has sent
\* exactly one error message (after two warnings) and re-raises, and it
\* re-raises in no other case.
C33_RetryBound ==
    /\ [](\A id \in DOMAIN bgtask :
            /\ bgtask[id].calls <= 3
            /\ bgtask[id].failed = 3 <=> bgtask[id].pc = "raised"
            /\ bgtask[id].pc = "raised" =>
                  /\ bgtask[id].calls = 3
                  /\ bgtask[id].sent = <<"warning", "warning", "error">>
            /\ CountOf("error", bgtask[id].sent) <= 1
            /\ bgtask[id].pc = "done" =>
                  /\ bgtask[id].calls = bgtask[id].failed + 1
                  /\ CountOf("error", bgtask[id].sent) = 0)
    /\ [][\A id \in DOMAIN bgtask :
            bgtask[id].pc \in {"done", "raised"} => bgtask'[id] = bgtask[id]]_vars

\* a task that failed three times: two warnings, the error message, re-raised
C33_Witness ==
    \E id \in DOMAIN bgtask :
        /\ bgtask[id].pc = "raised"
        /\ bgtask[id].failed = 3
        /\ bgtask[id].delivered = <<"warning", "warning", "error">>

\* the requests in progress, inside or outside the semaphore
InProgress(g) == SumOver(g.calls, CallKinds)

\* C40: a slot of a client's semaphore is taken exactly while one of its
\* requests is inside the async-with block, so a request that waits or sleeps
\* between attempts holds none and all slots are free when no request is in
\* progress; the block gives the slot back on return and on raise; a request
\* leaves after its third attempt whatever the outcome, and after any attempt
\* that ends with an error other than a rate limit.
C40_SlotsNotLeaked ==
    /\ [](\A c \in GroqClients :
            /\ gate.sem[c] = MaxConcurrent - InFlightOf(gate, c)
            /\ gate.sem[c] >= 0
            /\ InProgress(gate) = 0 => gate.sem[c] = MaxConcurrent)
    /\ [][\A a \in GateCallers, n \in 0..(MaxRetries - 1) :
            /\ \A o \in {"ok", "rate limit", "error"} :
                  Complete(a, n, o) => gate'.sem[ClientOf[a]] = gate.sem[ClientOf[a]] + 1
            /\ Complete(a, n, "error") => InProgress(gate') = InProgress(gate) - 1
            /\ Complete(a, n, "ok") => InProgress(gate') = InProgress(gate) - 1
            /\ Complete(a, MaxRetries - 1, "rate limit") =>
                  InProgress(gate') = InProgress(gate) - 1
            /\ (Complete(a, n, "rate limit") /\ n < MaxRetries - 1) =>
                  /\ InProgress(gate') = InProgress(gate)
                  /\ gate'.calls[<<a, "waiting", n + 1>>] =
                        gate.calls[<<a, "waiting", n + 1>>] + 1]_vars

\* a request that was rate-limited twice waits for its third attempt while
\* every slot of its client is free
C40_Witness ==
    /\ gate.calls[<<"saboteur", "waiting", 2>>] > 0
    /\ gate.sem["groq_client"] = MaxConcurrent
    /\ InFlightOf(gate, "groq_client") = 0

(***************************************************************************)
(* Test artifact names (NamingSpec): the name under which the testing      *)
(* stage saves the test of a source file, and the name verify_dojo_fix     *)
(* runs. A name is a sequence of tokens; ".py", ".js" and ".go" are the    *)
(* tokens in which the text of an extension occurs.                        *)
(***************************************************************************)
MaxMiddle == 3

ExtTokens == {".py", ".js", ".go"}
NameTokens == {"a", "/"} \cup ExtTokens

\* source paths: a name, up to MaxMiddle further tokens, and an extension
SourceNames ==
    {<<"a">> \o m \o <<x>> :
        m \in UNION {[1..n -> NameTokens] : n \in 0..MaxMiddle}, x \in ExtTokens}

\* str.replace(old, new) where old is the text of one token
RECURSIVE str_replace(_, _, _)
str_replace(name, old, new) ==
    IF name = <<>> THEN <<>>
    ELSE (IF Head(name) = old THEN new ELSE <<Head(name)>>)
           \o str_replace(Tail(name), old, new)

\* "." + name.split(".")[-1] for a name that ends with an extension
dot_ext(name) == name[Len(name)]

\* verify_dojo_fix line 421: the language follows from the extension
lang_of_ext(name) ==
    IF dot_ext(name) = ".py" THEN "python"
    ELSE IF dot_ext(name) \in {".js", ".ts"} THEN "javascript"
    ELSE "go"

\* the testing stage, lines 201-202
test_file_name(file_path, file_lang) ==
    IF file_lang = "python"
    THEN <<"test_">> \o str_replace(file_path, dot_ext(file_path), <<>>)
                     \o <<dot_ext(file_path)>>
    ELSE str_replace(file_path, dot_ext(file_path), <<>>)
           \o <<".test", dot_ext(file_path)>>

\* verify_dojo_fix, lines 420-424
test_file(target_file) ==
    IF lang_of_ext(target_file) = "python"
    THEN <<"test_">> \o target_file
    ELSE str_replace(target_file, dot_ext(target_file),
                     <<".test", dot_ext(target_file)>>)

\* both names are computed for a source path whose declared language is the
\* language of its extension
TestNames(name) ==
    /\ out' = [NoOut EXCEPT !.op = "test_names", !.fp = Rel(name),
                            !.listing = <<test_file_name(name, lang_of_ext(name)),
                                          test_file(name)>>]
    /\ UNCHANGED <<bgtask, active_challenges, handles, gate, files, dirs, active_projects,
                   runs, ps, cb, tasks>>

NamingNext == \E name \in SourceNames : TestNames(name)

NamingSpec == Init /\ [][NamingNext]_vars

\* C39: for every source path the name of the test artifact that
\* verify_dojo_fix runs is the name under which the testing stage saved it.
C39_TestPathAgreement ==
    out.op = "test_names" => out.listing[1] = out.listing[2]

\* the same for the names in which the extension occurs once, at the end
AgreementForPlainNames ==
    (out.op = "test_names"
       /\ \A i \in 1..(Len(out.fp.parts) - 1) : out.fp.parts[i] \notin ExtTokens) =>
        out.listing[1] = out.listing[2]

====
